---- MODULE Spec2Model ----
(***************************************************************************)
(* Model of the Antigravity Auto Accept extension:                         *)
(*   - the injected page agent (main_scripts/cdp-handler.js, second half): *)
(*     session state, loop bodies, performClick, the banned-command filter *)
(*   - the CDP command channel (CDPHandler.sendCommand / message handler)  *)
(*   - the instance lock of the orchestrator (extension.js startPolling)   *)
(* Strings are sequences of one-character tokens so that matching,         *)
(* trimming and lower-casing are computed, not assumed.                    *)
(***************************************************************************)
EXTENDS Integers, Sequences, FiniteSets, TLC

(***************************************************************************)
(* Text helpers (JavaScript String methods used by the agent)              *)
(***************************************************************************)

\* U+200B..U+200D, U+FEFF are represented by the single token "ZW".
WhiteSpace == {" ", "\t"}

UpperToLower ==
  [c \in {"A", "C", "R", "N", "M"} |->
     CASE c = "A" -> "a" [] c = "C" -> "c" [] c = "R" -> "r"
       [] c = "N" -> "n" [] c = "M" -> "m"]

ToLowerChar(c) == IF c \in DOMAIN UpperToLower THEN UpperToLower[c] ELSE c

ToLowerCase(s) == [i \in 1..Len(s) |-> ToLowerChar(s[i])]

\* \w of a JavaScript regular expression, over the tokens the model uses.
WordChars ==
  {"a", "b", "c", "d", "e", "f", "g", "h", "i", "k", "l", "m", "n", "o", "p",
   "r", "s", "t", "u", "w", "x", "y", "A", "C", "R", "N", "M", "0", "1", "_"}

RECURSIVE TrimStart(_)
TrimStart(s) ==
  IF s = <<>> THEN <<>>
  ELSE IF Head(s) \in WhiteSpace THEN TrimStart(Tail(s)) ELSE s

RECURSIVE TrimEnd(_)
TrimEnd(s) ==
  IF s = <<>> THEN <<>>
  ELSE IF s[Len(s)] \in WhiteSpace THEN TrimEnd(SubSeq(s, 1, Len(s) - 1)) ELSE s

Trim(s) == TrimEnd(TrimStart(s))

\* String.prototype.includes
Includes(text, sub) ==
  \E i \in 1..(Len(text) + 1) :
     /\ i + Len(sub) - 1 <= Len(text)
     /\ SubSeq(text, i, i + Len(sub) - 1) = sub

StartsWith(text, sub) ==
  Len(sub) <= Len(text) /\ SubSeq(text, 1, Len(sub)) = sub

\* String.prototype.lastIndexOf for a one-character needle, 0-based, -1 if absent.
LastIndexOf(s, c) ==
  LET hits == {i \in 1..Len(s) : s[i] = c}
  IN  IF hits = {} THEN -1
      ELSE (CHOOSE i \in hits : \A j \in hits : j <= i) - 1

\* String.prototype.substring(from, to), 0-based, end exclusive.
Substring(s, from, to) == SubSeq(s, from + 1, to)

RECURSIVE JoinWithSpace(_)
\* commandText += ' ' + text, for each text in order
JoinWithSpace(texts) ==
  IF texts = <<>> THEN <<>>
  ELSE <<" ">> \o Head(texts) \o JoinWithSpace(Tail(texts))

(***************************************************************************)
(* RegExp: the subset of the JavaScript syntax the banned patterns of the  *)
(* model use: literal characters, ".", "^", "$" and the "*" quantifier.    *)
(* A body with an unclosed "(" or "[", or a leading "*", and a flag string *)
(* with an unknown or repeated flag make `new RegExp` throw.               *)
(***************************************************************************)
RegExpFlags == {"d", "g", "i", "m", "s", "u", "y"}

FlagsValid(flags) ==
  /\ \A i \in 1..Len(flags) : flags[i] \in RegExpFlags
  /\ \A i, j \in 1..Len(flags) : i # j => flags[i] # flags[j]

BodyValid(body) ==
  /\ body # <<>> => body[1] # "*"
  /\ \A i \in 1..Len(body) :
        /\ body[i] = "(" => \E j \in (i + 1)..Len(body) : body[j] = ")"
        /\ body[i] = "[" => \E j \in (i + 1)..Len(body) : body[j] = "]"
        /\ body[i] = "*" /\ i > 1 => body[i - 1] # "*"

RegExpValid(body, flags) == BodyValid(body) /\ FlagsValid(flags)

CharMatches(rc, tc, ci) ==
  \/ rc = "."
  \/ rc = tc
  \/ ci /\ ToLowerChar(rc) = ToLowerChar(tc)

RECURSIVE MatchHere(_, _, _, _, _)
\* does re[i..] match a prefix of text[j..] ?
MatchHere(re, i, text, j, ci) ==
  IF i > Len(re) THEN TRUE
  ELSE IF i < Len(re) /\ re[i + 1] = "*"
       THEN \/ MatchHere(re, i + 2, text, j, ci)
            \/ /\ j <= Len(text)
               /\ CharMatches(re[i], text[j], ci)
               /\ MatchHere(re, i, text, j + 1, ci)
  ELSE IF re[i] = "$" /\ i = Len(re) THEN j > Len(text)
  ELSE /\ j <= Len(text)
       /\ CharMatches(re[i], text[j], ci)
       /\ MatchHere(re, i + 1, text, j + 1, ci)

\* new RegExp(body, flags).test(text), for a valid expression
RegExpTest(body, flags, text) ==
  LET ci == \E k \in 1..Len(flags) : flags[k] = "i"
  IN  IF body # <<>> /\ body[1] = "^"
      THEN MatchHere(body, 2, text, 1, ci)
      ELSE \E j \in 1..(Len(text) + 1) : MatchHere(body, 1, text, j, ci)

(***************************************************************************)
(* Banned-command filter                                                    *)
(***************************************************************************)

\* an iteration that reads every entry as a literal
PatternMatches_Literal(banned, commandText) ==
  /\ Trim(banned) # <<>>
  /\ Includes(ToLowerCase(commandText), ToLowerCase(Trim(banned)))

\* an iteration whose catch block does nothing
PatternMatches_NoFallback(banned, commandText) ==
  LET pattern   == Trim(banned)
      lastSlash == LastIndexOf(pattern, "/")
      rest      == Substring(pattern, lastSlash + 1, Len(pattern))
      flags     == IF rest = <<>> THEN <<"i">> ELSE rest
  IN  /\ pattern # <<>>
      /\ IF StartsWith(pattern, <<"/">>) /\ lastSlash > 0
         THEN /\ RegExpValid(Substring(pattern, 1, lastSlash), flags)
              /\ RegExpTest(Substring(pattern, 1, lastSlash), flags, commandText)
         ELSE Includes(ToLowerCase(commandText), ToLowerCase(pattern))

\* One iteration of the loop of isCommandBanned over a banned entry: TRUE iff
\* this entry reports the command as banned.
PatternMatches(banned, commandText) ==
  LET pattern   == Trim(banned)
      lowerText == ToLowerCase(commandText)
      literal   == Includes(lowerText, ToLowerCase(pattern))
      lastSlash == LastIndexOf(pattern, "/")
  IN  IF pattern = <<>> THEN FALSE
      ELSE IF StartsWith(pattern, <<"/">>) /\ lastSlash > 0
           THEN LET regexPattern == Substring(pattern, 1, lastSlash)
                    rest         == Substring(pattern, lastSlash + 1, Len(pattern))
                    flags        == IF rest = <<>> THEN <<"i">> ELSE rest
                IN  IF RegExpValid(regexPattern, flags)
                    THEN RegExpTest(regexPattern, flags, commandText)
                    ELSE literal   \* catch (e): literal fallback
           ELSE literal

RECURSIVE BannedScan_CountAll(_, _)
\* a loop that goes on after a match and tracks every matching entry
BannedScan_CountAll(bannedList, commandText) ==
  IF bannedList = <<>> THEN [banned |-> FALSE, blocked |-> 0]
  ELSE LET rest == BannedScan_CountAll(Tail(bannedList), commandText)
           here == Trim(Head(bannedList)) # <<>>
                     /\ Includes(ToLowerCase(commandText),
                                 ToLowerCase(Trim(Head(bannedList))))
       IN  [banned |-> here \/ rest.banned,
            blocked |-> rest.blocked + (IF here THEN 1 ELSE 0)]

RECURSIVE BannedScan(_, _)
\* the for-loop of isCommandBanned: stops at the first entry that matches
BannedScan(bannedList, commandText) ==
  IF bannedList = <<>> THEN [banned |-> FALSE, blocked |-> 0]
  ELSE IF PatternMatches(Head(bannedList), commandText)
       THEN [banned |-> TRUE, blocked |-> 1]      \* Analytics.trackBlocked; return true
       ELSE BannedScan(Tail(bannedList), commandText)

\* a filter that lets every command pass
isCommandBanned_Never(commandText, bannedList) ==
  [banned |-> FALSE, blocked |-> 0]

\* a filter that runs its loop on an empty command text too
isCommandBanned_ScanEmpty(commandText, bannedList) ==
  IF Len(bannedList) = 0 THEN [banned |-> FALSE, blocked |-> 0]
  ELSE BannedScan(bannedList, commandText)

\* isCommandBanned(commandText) against state.bannedCommands; `blocked` is the
\* number of Analytics.trackBlocked calls it makes.
isCommandBanned(commandText, bannedList) ==
  IF Len(bannedList) = 0 THEN [banned |-> FALSE, blocked |-> 0]
  ELSE IF Len(commandText) = 0 THEN [banned |-> FALSE, blocked |-> 0]
  ELSE BannedScan(bannedList, commandText)

(***************************************************************************)
(* Button classification                                                    *)
(***************************************************************************)
RECURSIVE SkipWhile(_, _, _)
\* first index >= i of s whose token is not in set (Len(s)+1 if none)
SkipWhile(s, i, set) ==
  IF i <= Len(s) /\ s[i] \in set THEN SkipWhile(s, i + 1, set) ELSE i

HintKeys == << <<"a", "l", "t">>, <<"c", "t", "r", "l">>, <<"c", "m", "d">>,
              <<"s", "h", "i", "f", "t">> >>

\* /\s*(alt|ctrl|cmd|shift)\s*\+\s*\w+/gi matched at index i of s: the index
\* after the match, or 0 when there is no match starting at i.
HintEndAt(s, i) ==
  LET j    == SkipWhile(s, i, WhiteSpace)
      low  == ToLowerCase(s)
      keys == {k \in 1..Len(HintKeys) :
                 /\ j + Len(HintKeys[k]) - 1 <= Len(s)
                 /\ SubSeq(low, j, j + Len(HintKeys[k]) - 1) = HintKeys[k]}
  IN  IF keys = {} THEN 0
      ELSE LET k  == CHOOSE x \in keys : \A y \in keys : x <= y
               j2 == SkipWhile(s, j + Len(HintKeys[k]), WhiteSpace)
           IN  IF j2 > Len(s) \/ s[j2] # "+" THEN 0
               ELSE LET j3 == SkipWhile(s, j2 + 1, WhiteSpace)
                        j4 == SkipWhile(s, j3, WordChars)
                    IN  IF j4 > j3 THEN j4 ELSE 0

RECURSIVE StripHintsFrom(_, _)
StripHintsFrom(s, i) ==
  IF i > Len(s) THEN <<>>
  ELSE LET e == HintEndAt(s, i)
       IN  IF e > 0 THEN StripHintsFrom(s, e)
           ELSE <<s[i]>> \o StripHintsFrom(s, i + 1)

\* rawText.replace(/\s*(alt|ctrl|cmd|shift)\s*\+\s*\w+/gi, '')
StripHints(s) == StripHintsFrom(s, 1)

\* text.replace(/[U+200B-U+200D, U+FEFF]/g, '')
StripZeroWidth(s) == SelectSeq(s, LAMBDA c : c # "ZW")

RECURSIVE CollapseFrom(_, _)
\* text.replace(/\s+/g, ' ')
CollapseFrom(s, i) ==
  IF i > Len(s) THEN <<>>
  ELSE IF s[i] \in WhiteSpace
       THEN <<" ">> \o CollapseFrom(s, SkipWhile(s, i, WhiteSpace))
       ELSE <<s[i]>> \o CollapseFrom(s, i + 1)

CollapseWhiteSpace(s) == CollapseFrom(s, 1)

\* lines 1157-1160 of isAcceptButton
NormalizeText(textContent) ==
  LET rawText == ToLowerCase(Trim(textContent))
      t1      == Trim(StripHints(rawText))
      t2      == StripZeroWidth(t1)
  IN  CollapseWhiteSpace(t2)

\* isAcceptButton: const patterns
AcceptPatterns ==
  << <<"a", "c", "c", "e", "p", "t">>, <<"r", "u", "n">>, <<"r", "e", "t", "r", "y">>,
     <<"a", "p", "p", "l", "y">>, <<"e", "x", "e", "c", "u", "t", "e">>, <<"c", "o", "n", "f", "i", "r", "m">>,
     <<"a", "l", "l", "o", "w", " ", "o", "n", "c", "e">>, <<"a", "l", "l", "o", "w">>, <<"o", "k">>,
     <<"y", "e", "s">>, <<"c", "o", "n", "t", "i", "n", "u", "e">>, <<"p", "r", "o", "c", "e", "e", "d">>,
     <<"a", "p", "p", "r", "o", "v", "e">>, <<"s", "u", "b", "m", "i", "t">>, <<"s", "a", "v", "e">>,
     <<"d", "o", "n", "e">> >>

\* isAcceptButton: const rejects
RejectPatterns ==
  << <<"s", "k", "i", "p">>, <<"r", "e", "j", "e", "c", "t">>, <<"c", "a", "n", "c", "e", "l">>,
     <<"c", "l", "o", "s", "e">>, <<"r", "e", "f", "i", "n", "e">>, <<"d", "i", "s", "m", "i", "s", "s">>,
     <<"n", "o">>, <<"d", "e", "c", "l", "i", "n", "e">>, <<"d", "e", "n", "y">>,
     <<"b", "a", "c", "k">>, <<"u", "n", "d", "o">>, <<"r", "e", "v", "e", "r", "t">> >>

\* Analytics: TERMINAL_KEYWORDS
TERMINAL_KEYWORDS ==
  << <<"r", "u", "n">>, <<"e", "x", "e", "c", "u", "t", "e">>, <<"c", "o", "m", "m", "a", "n", "d">>, <<"t", "e", "r", "m", "i", "n", "a", "l">> >>

Str_run == <<"r", "u", "n">>
Str_runCommand == <<"r", "u", "n", " ", "c", "o", "m", "m", "a", "n", "d">>
Str_execute == <<"e", "x", "e", "c", "u", "t", "e">>

SomeIncluded(text, words) == \E k \in 1..Len(words) : Includes(text, words[k])

(***************************************************************************)
(* The page: candidate controls.  A control is described by what the DOM    *)
(* queries of the agent read from it:                                       *)
(*   textContent    el.textContent                                          *)
(*   ancestorCode   the <pre>/<code> texts findNearbyCommandText collects   *)
(*                  from the previous siblings of el's ancestors            *)
(*   siblingCode    the <pre>/<code> texts inside el's own previous         *)
(*                  siblings (read only when ancestorCode gave nothing)     *)
(*   ariaLabel, title   attributes (<<>> when absent)                       *)
(*   pointerEvents, disabled   style.pointerEvents # 'none', el.disabled    *)
(***************************************************************************)
Control(text, anc, sib, aria, title) ==
  [textContent |-> text, ancestorCode |-> anc, siblingCode |-> sib,
   ariaLabel |-> aria, title |-> title, pointerEvents |-> TRUE,
   disabled |-> FALSE]

\* findNearbyCommandText(el)
findNearbyCommandText(el) ==
  LET fromAncestors == JoinWithSpace(el.ancestorCode)
      afterFallback == IF Len(fromAncestors) = 0
                       THEN JoinWithSpace(el.siblingCode)
                       ELSE fromAncestors
      withAria      == IF el.ariaLabel # <<>>
                       THEN afterFallback \o <<" ">> \o el.ariaLabel
                       ELSE afterFallback
      withTitle     == IF el.title # <<>>
                       THEN withAria \o <<" ">> \o el.title
                       ELSE withAria
  IN  ToLowerCase(Trim(withTitle))

\* the visibility test at the end of isAcceptButton (lines 1188-1190);
\* shown = style.display # 'none' /\ rect.width > 0
IsVisibleForClick(el, shown) == shown /\ el.pointerEvents /\ ~el.disabled

NotAccepted == [accept |-> FALSE, blocked |-> 0]

\* isAcceptButton from the banned check on (lines 1179-1196); ban is the
\* outcome of isCommandBanned, or "not banned" for a control that is no
\* command button
AcceptUnlessBanned(ban, el, shown) ==
  IF ban.banned THEN [accept |-> FALSE, blocked |-> ban.blocked]
  ELSE [accept |-> IsVisibleForClick(el, shown), blocked |-> ban.blocked]

\* const isCommandButton (line 1177)
IsCommandButton(text) ==
  \/ Includes(text, Str_runCommand)
  \/ Includes(text, Str_execute)
  \/ Includes(text, Str_run)

\* a classification that looks for the acceptance keywords first
ClassifyText_AcceptFirst(text, el, shown, bannedList) ==
  IF Len(text) = 0 \/ Len(text) > 50 THEN NotAccepted
  ELSE IF SomeIncluded(text, AcceptPatterns)
       THEN AcceptUnlessBanned(
              IF IsCommandButton(text)
              THEN isCommandBanned(findNearbyCommandText(el), bannedList)
              ELSE [banned |-> FALSE, blocked |-> 0],
              el, shown)
  ELSE NotAccepted

\* isAcceptButton past the normalisation of the text (lines 1162-1196)
ClassifyText(text, el, shown, bannedList) ==
  IF Len(text) = 0 \/ Len(text) > 50 THEN NotAccepted
  ELSE IF SomeIncluded(text, RejectPatterns) THEN NotAccepted
  ELSE IF ~SomeIncluded(text, AcceptPatterns) THEN NotAccepted
  ELSE AcceptUnlessBanned(
         IF IsCommandButton(text)
         THEN isCommandBanned(findNearbyCommandText(el), bannedList)
         ELSE [banned |-> FALSE, blocked |-> 0],
         el, shown)

\* isAcceptButton(el): `accept` is its return value, `blocked` the number of
\* Analytics.trackBlocked calls made on the way.
isAcceptButton(el, shown, bannedList) ==
  ClassifyText(NormalizeText(el.textContent), el, shown, bannedList)

\* Analytics.categorizeClick(buttonText)
categorizeClick(buttonText) ==
  IF SomeIncluded(ToLowerCase(buttonText), TERMINAL_KEYWORDS)
  THEN "terminal_command" ELSE "file_edit"
(***************************************************************************)
(* Bounds of the model                                                      *)
(***************************************************************************)
MaxSession == 2      \* non-no-op starts explored per page
MaxInject  == 2      \* evaluations of the agent script explored per page
MaxPasses  == 1      \* performClick invocations in flight at once
MaxBlocked == 1      \* cap of the blocked counter
MaxClicks  == 1      \* cap of the click counter
MaxTicks   == 1      \* clock ticks explored

\* const CLICK_COOLDOWN_MS
CLICK_COOLDOWN_MS == 5000
\* the clock advances in steps of one cooldown
TimeStep == CLICK_COOLDOWN_MS

(***************************************************************************)
(* The candidate controls of the model.                                     *)
(***************************************************************************)
Dom ==
  << Control(<<"R", "u", "n", " ", "A", "l", "t", "+", "R">>, << <<"r", "m", " ", "-", "r", "f", " ", "/">> >>, <<>>, <<>>, <<>>),
     Control(<<"A", "c", "c", "e", "p", "t">>, << <<"r", "m", " ", "-", "r", "f", " ", "/">> >>, <<>>, <<>>, <<>>),
     Control(<<"R", "u", "n", " ", "n", "o", "w">>, <<>>, << <<"r", "m", " ", "-", "r", "f", " ", "/">> >>, <<>>, <<>>) >>

NumControls == Len(Dom)
Elements == 1..NumControls

\* the pages explored: the controls a page shows, in document order
Doms == { <<1>>, <<2>>, <<3>> }

\* banned lists the controller pushes
BannedLists ==
  { <<>>,
    << <<"r", "m", " ", "-", "r", "f", " ", "/">> >> }

IdeModes == {"cursor", "antigravity"}
PollIntervals == {1000}

\* the config object of syncSessions (extension.js 356-361)
Configs ==
  [ide : IdeModes, isBackgroundMode : BOOLEAN, pollInterval : PollIntervals,
   bannedCommands : BannedLists]

(***************************************************************************)
(* State                                                                    *)
(***************************************************************************)
VARIABLES
  \* ---- the page: window.__autoAcceptState and the agent's closures
  injected,           \* evaluations of the agent script in the page so far
  isRunning, sessionID, currentMode, isBackgroundMode, bannedCommands,
  stats,              \* state.stats
  loops,              \* loop bodies launched so far, in launch order
  passes,             \* performClick invocations in flight
  clickedTimestamps,  \* per closure: the WeakMap element -> last click time
  onPage,             \* the candidate controls of the page, in document order
  shown,              \* per control: display # none and width > 0
  clock,              \* Date.now()
  \* ---- the controller side of this page (CDPHandler)
  hIsEnabled,         \* CDPHandler.isEnabled
  keyboardLoopInterval, \* the shortcut timer is armed
  connected,          \* connections.has(page.id)
  connInjected,       \* conn.injected
  \* ---- history, for stating the claims
  bannedAccepted,     \* paths by which a command matching the banned list was accepted
  sawNoopStart,       \* some __autoAcceptStart returned at 'Already running'
  lastClick,          \* per control: time of the latest click dispatched on it, 0 when none
  focusLog            \* the tab clicks of the loop bodies, in order: loop body and tab index

VARIABLES
  \* ---- the command channel of the controller (CDPHandler)
  messageId,          \* CDPHandler.messageId
  pendingMessages,    \* ids with an entry in CDPHandler.pendingMessages
  openConns,          \* connections whose socket is open
  commands,           \* per id sent: the connection and the time of sending
  timers,             \* ids whose timeout callback has not run yet
  wire,               \* responses sent by a page, not yet received
  answered,           \* ids the page has answered
  chanClock,          \* time on the controller side, ms
  \* ---- history, for stating the claims
  completionLog,      \* calls of a command's resolve / reject, in order
  lateDropped         \* ids whose response arrived after their entry was gone

VARIABLES
  \* ---- the extension instances (windows) of one IDE and their shared
  \* ---- globalState
  lockOwner,          \* globalState[lockKey]; "undefined" when never written
  lockPing,           \* globalState[lockKey + '-ping']; 0 when never written
  lockClock,          \* Date.now(), ms
  isEnabled,          \* per instance
  isLockedOut,        \* per instance
  pollTimer,          \* per instance: the interval timer is armed
  ticked,             \* per instance: the timer fired in the current interval
  \* ---- history, for stating the claims
  holder,             \* the instance that wrote the lock record last
  syncedAt,           \* per instance: time of its latest sync, -1 when none
  scannedAt,          \* per instance: time of its latest scanForInstances, -1 when none
  storedBanned,       \* globalState: the list under BANNED_COMMANDS_KEY
  memBanned,          \* per instance: its variable bannedCommands
  lastPush,           \* history: the latest config handed to cdpHandler.start
  persistedEnabled    \* history: the stored list was written by an enabled instance

VARIABLES
  \* ---- the connections of the controller (CDPHandler): overlapping start()
  \* ---- calls, the sockets they open and the injection through them
  sockets,            \* WebSocket objects created by connectToPage, in creation order
  connections,        \* CDPHandler.connections: per target the socket of its entry, 0 when none
  startCalls          \* start() calls made so far, with the await each is suspended at

connVars == <<sockets, connections, startCalls>>

VARIABLES
  \* ---- one call of isCommandBanned
  argText,            \* the commandText argument
  argList,            \* state.bannedCommands at the call
  result              \* what the call returned, once it has

banVars == <<argText, argList, result>>

VARIABLES
  \* ---- the weekly statistics of the extension
  globalStats,        \* globalState's value under ROI_STATS_KEY: <<>> or <<stats>>
  today,              \* the local date, in days since a Sunday
  loadCall            \* the call of loadROIStats

roiVars == <<globalStats, today, loadCall>>

VARIABLES
  \* ---- one call of isAcceptButton
  argEl,              \* the element
  argShown,           \* style.display # 'none' and rect.width > 0
  argBanned,          \* state.bannedCommands at the call
  accepted            \* what the call returned, once it has

btnVars == <<argEl, argShown, argBanned, accepted>>

VARIABLES
  \* ---- one call of updateTabNames
  rawNames,           \* the labels of the tabs, time suffix stripped
  tabNames            \* window.__autoAcceptState.tabNames

tabVars == <<rawNames, tabNames>>

VARIABLES
  \* ---- the extension of one window, with its asynchronous calls
  extEnabled,         \* isEnabled of extension.js
  pollTimerRef,       \* pollTimer: 0 for null, else the interval it names
  intervals,          \* the intervals made by setInterval and not cleared
  flights,            \* the asynchronous calls in flight, each at its await
  timersMade,         \* setInterval calls made so far
  togglesMade,        \* handleToggle calls made so far
  lateStart           \* the agent was started while isEnabled was false

extVars ==
  <<extEnabled, pollTimerRef, intervals, flights, timersMade, togglesMade,
    lateStart>>

VARIABLES
  \* ---- the statistics collection of the extension
  collects            \* collectAndSaveStats calls in flight, each at its await

colVars == <<collects>>

pureVars == <<banVars, roiVars, btnVars, tabVars, colVars>>

fnVars == <<pureVars, extVars>>

chanVars ==
  <<messageId, pendingMessages, openConns, commands, timers, wire, answered,
    chanClock, completionLog, lateDropped>>

lockVars ==
  <<lockOwner, lockPing, lockClock, isEnabled, isLockedOut, pollTimer,
    ticked, holder, syncedAt, scannedAt, storedBanned, memBanned, lastPush,
    persistedEnabled>>

agentVars ==
  <<injected, isRunning, sessionID, currentMode, isBackgroundMode,
    bannedCommands, stats, loops, passes, clickedTimestamps, onPage,
    shown, clock, hIsEnabled, keyboardLoopInterval, connected, connInjected,
    bannedAccepted, sawNoopStart, lastClick, focusLog>>

\* Analytics.createDefaultStats
createDefaultStats ==
  [clicksThisSession |-> 0, blockedThisSession |-> 0,
   fileEditsThisSession |-> 0, terminalCommandsThisSession |-> 0,
   actionsWhileAway |-> 0, isWindowFocused |-> TRUE]

NoTimestamps == [e \in Elements |-> 0]

\* the page before the first injection, and a controller that was just built;
\* pages: the pages explored
AgentInitOn(pages) ==
  /\ injected = 0
  /\ isRunning = FALSE
  /\ sessionID = 0
  /\ currentMode = "null"
  /\ isBackgroundMode = "undefined"
  /\ bannedCommands = <<>>
  /\ stats = createDefaultStats
  /\ loops = <<>>
  /\ passes = <<>>
  /\ clickedTimestamps = <<>>
  /\ onPage \in pages
  /\ shown = [e \in Elements |-> TRUE]
  /\ clock = TimeStep
  /\ hIsEnabled = FALSE
  /\ keyboardLoopInterval = FALSE
  /\ connected = FALSE
  /\ connInjected = FALSE
  /\ bannedAccepted = {}
  /\ sawNoopStart = FALSE
  /\ lastClick = [e \in Elements |-> 0]
  /\ focusLog = <<>>

AgentInit == AgentInitOn(Doms)

(***************************************************************************)
(* performClick                                                             *)
(***************************************************************************)
\* the command a control asks to confirm: the code text shown with it
PendingCommand(e) == findNearbyCommandText(Dom[e])

\* control e confirms a command, and some entry of bannedList matches it
MatchesBanned(e, bannedList) ==
  /\ PendingCommand(e) # <<>>
  /\ BannedScan(bannedList, PendingCommand(e)).banned

\* the result of a scan that met n blocked controls before going on as `next`
AddBlocked(n, next) ==
  [rest |-> next.rest, blocked |-> n + next.blocked, clicked |-> next.clicked]

RECURSIVE ScanQueue(_, _, _, _, _), ScanControl(_, _, _, _, _, _)
\* The for-loop of performClick from one suspension point to the next: walks
\* the controls of `queue` until one is clicked (then it awaits
\* waitForDisappear) or the queue ends.  rest: the controls left after the
\* clicked one; blocked: trackBlocked calls; clicked: the control clicked, 0
\* when the loop ended.
ScanQueue(queue, now, timestamps, shownNow, bannedList) ==
  IF queue = <<>> THEN [rest |-> <<>>, blocked |-> 0, clicked |-> 0]
  ELSE IF /\ timestamps[Head(queue)] # 0
          /\ (now - timestamps[Head(queue)]) < CLICK_COOLDOWN_MS
       THEN ScanQueue(Tail(queue), now, timestamps, shownNow, bannedList)
       ELSE ScanControl(isAcceptButton(Dom[Head(queue)], shownNow[Head(queue)],
                                       bannedList),
                        queue, now, timestamps, shownNow, bannedList)

\* one iteration of the for-loop on a control that is off cooldown; r is
\* what isAcceptButton said of it
ScanControl(r, queue, now, timestamps, shownNow, bannedList) ==
  IF r.accept
  THEN [rest |-> Tail(queue), blocked |-> r.blocked, clicked |-> Head(queue)]
  ELSE AddBlocked(r.blocked,
                  ScanQueue(Tail(queue), now, timestamps, shownNow, bannedList))

\* uniqueFound: every control of the page, in document order
AllControls == onPage

IsOnPage(e) == \E k \in 1..Len(onPage) : onPage[k] = e

\* Analytics.trackClick(buttonText)
trackClick(s, buttonText) ==
  LET terminal == categorizeClick(buttonText) = "terminal_command"
  IN  [s EXCEPT
         !.clicksThisSession = @ + 1,
         !.terminalCommandsThisSession = IF terminal THEN @ + 1 ELSE @,
         !.fileEditsThisSession = IF terminal THEN @ ELSE @ + 1,
         !.actionsWhileAway = IF ~s.isWindowFocused THEN @ + 1 ELSE @]

\* Analytics.trackBlocked, n times
trackBlocked(s, n) == [s EXCEPT !.blockedThisSession = @ + n]
(***************************************************************************)
(* Page operations.  The page state is gathered in a record so that one     *)
(* controller step that evaluates several expressions in the page (inject,  *)
(* then start) composes them.                                               *)
(***************************************************************************)
Page ==
  [injected |-> injected, isRunning |-> isRunning, sessionID |-> sessionID,
   currentMode |-> currentMode, isBackgroundMode |-> isBackgroundMode,
   bannedCommands |-> bannedCommands, stats |-> stats, loops |-> loops,
   passes |-> passes, clickedTimestamps |-> clickedTimestamps,
   bannedAccepted |-> bannedAccepted,
   sawNoopStart |-> sawNoopStart, lastClick |-> lastClick,
   focusLog |-> focusLog]

SetPage(pg) ==
  /\ injected' = pg.injected
  /\ isRunning' = pg.isRunning
  /\ sessionID' = pg.sessionID
  /\ currentMode' = pg.currentMode
  /\ isBackgroundMode' = pg.isBackgroundMode
  /\ bannedCommands' = pg.bannedCommands
  /\ stats' = pg.stats
  /\ loops' = pg.loops
  /\ passes' = pg.passes
  /\ clickedTimestamps' = pg.clickedTimestamps
  /\ bannedAccepted' = pg.bannedAccepted
  /\ sawNoopStart' = pg.sawNoopStart
  /\ lastClick' = pg.lastClick
  /\ focusLog' = pg.focusLog

RemoveAt(seq, k) == SubSeq(seq, 1, k - 1) \o SubSeq(seq, k + 1, Len(seq))

\* el.click() and the synthetic MouseEvent on control el (lines 1242-1250):
\* the timestamp of the pass is stored, the IDE accepts the step the control
\* confirms.
DispatchClick(pg, el, closure, now) ==
  [pg EXCEPT
     !.clickedTimestamps[closure][el] = now,
     !.lastClick[el] = clock,
     !.bannedAccepted =
        IF MatchesBanned(el, pg.bannedCommands) THEN @ \cup {"click"} ELSE @]

\* performClick after the for-loop ran from one suspension point to the
\* next with outcome r (of ScanQueue); clicked and verified are the
\* invocation's counters of those names when the for-loop went on
AfterScan(pg, owner, closure, now, clicked, verified, r) ==
  IF r.clicked # 0
  THEN [DispatchClick([pg EXCEPT !.stats = trackBlocked(@, r.blocked)],
                      r.clicked, closure, now)
          EXCEPT
            !.passes = Append(@, [owner |-> owner, closure |-> closure,
                                  queue |-> r.rest, now |-> now,
                                  cur |-> r.clicked,
                                  clicked |-> clicked + 1,
                                  verified |-> verified]),
            !.loops[owner].pc = IF pg.loops[owner].kind # "static"
                                THEN "clicking" ELSE @]
  ELSE \* the for-loop ended: return
       [pg EXCEPT !.stats = trackBlocked(@, r.blocked),
                  !.loops[owner].pc = IF pg.loops[owner].kind # "static"
                                      THEN "sleepA" ELSE @]

\* performClick, run from a suspension point (its start, or the return of
\* waitForDisappear) to the next one.  owner is the index of the loop body
\* that called it; a cursor or antigravity loop awaits it, staticLoop does not.
performClickFrom(pg, owner, closure, queue, now, clicked, verified) ==
  AfterScan(pg, owner, closure, now, clicked, verified,
            ScanQueue(queue, now, pg.clickedTimestamps[closure], shown,
                      pg.bannedCommands))

\* performClick from its start: let clicked = 0; let verified = 0
performClick(pg, owner, closure, queue, now) ==
  performClickFrom(pg, owner, closure, queue, now, 0, 0)

\* continuation tests that read only one of the two conditions
LoopMayContinue_NoSession(pg, sid) == pg.isRunning
LoopMayContinue_NoRunning(pg, sid) == pg.sessionID = sid

\* the continuation test of the three loop bodies (lines 1276, 1352, 1526)
LoopMayContinue(pg, sid) == pg.isRunning /\ pg.sessionID = sid

\* One loop body at its while-test: either it starts the next cycle, or it
\* ends.  The cycle runs up to its first await.  hasBadge: a Good/Bad
\* feedback badge is on the page (read by antigravityLoop only).
LoopCheck(pg, i, hasBadge) ==
  LET l == pg.loops[i]
  IN  IF ~LoopMayContinue(pg, l.sid)
      THEN [pg EXCEPT !.loops[i].pc = "done"]
      ELSE IF l.kind = "static"
           THEN \* performClick(...) is not awaited; await setTimeout(pollInterval)
                performClick([pg EXCEPT !.loops[i].pc = "sleeping"], i,
                             l.closure, AllControls, clock)
      ELSE IF l.kind = "antigravity" /\ hasBadge
           THEN \* conversation is done: no clicks this cycle
                [pg EXCEPT !.loops[i].pc = "sleepA"]
      ELSE performClick(pg, i, l.closure, AllControls, clock)

\* an evaluation of the agent script that builds the state object anew
InjectScript_Reset(pg) ==
  [pg EXCEPT
     !.injected = @ + 1,
     !.isRunning = FALSE,
     !.sessionID = 0,
     !.currentMode = "null",
     !.bannedCommands = <<>>,
     !.stats = createDefaultStats,
     !.clickedTimestamps = Append(@, NoTimestamps)]

\* Analytics.initialize and the rest of the agent script, evaluated in the
\* page: the state object is created only when the page has none; the new
\* closure has an empty clickedTimestamps map.
InjectScript(pg) ==
  [pg EXCEPT
     !.injected = @ + 1,
     !.stats.isWindowFocused = TRUE,
     !.clickedTimestamps = Append(@, NoTimestamps)]

\* window.__autoAcceptUpdateBannedCommands(bannedList)
autoAcceptUpdateBannedCommands(pg, bannedList) ==
  [pg EXCEPT !.bannedCommands = bannedList]

LoopKind(ide, isBG) ==
  IF ~isBG THEN "static" ELSE IF ide = "cursor" THEN "cursor" ELSE "antigravity"

\* a start that keeps the generation it finds
NextSessionID_Same(sid) == sid

\* state.sessionID++
NextSessionID(sid) == sid + 1

\* __autoAcceptStart past the 'Already running' test: the session is
\* advanced and the loop body of the mode is launched; it runs up to its
\* first await inside this call.
StartSession(pg, config, hasBadge) ==
  LET ide  == config.ide
      isBG == config.isBackgroundMode = TRUE
      sid  == NextSessionID(pg.sessionID)
      pg2  == [pg EXCEPT
                 !.isRunning = TRUE,
                 !.currentMode = ide,
                 !.isBackgroundMode = isBG,
                 !.sessionID = sid,
                 !.loops = Append(@, [kind |-> LoopKind(ide, isBG),
                                      sid |-> sid, pc |-> "check",
                                      closure |-> pg.injected,
                                      pollInterval |-> config.pollInterval,
                                      index |-> 0])]
  IN  LoopCheck(pg2, Len(pg2.loops), hasBadge)

\* the test of line 1494
AlreadyRunning(pg, config) ==
  /\ pg.isRunning
  /\ pg.currentMode = config.ide
  /\ pg.isBackgroundMode = (config.isBackgroundMode = TRUE)

\* a start that launches a loop body whatever is running
autoAcceptStart_NoGuard(pg, config, hasBadge) ==
  StartSession(autoAcceptUpdateBannedCommands(pg, config.bannedCommands),
               config, hasBadge)

\* a start that takes the banned list only when it launches a session
autoAcceptStart_KeepList(pg, config, hasBadge) ==
  IF AlreadyRunning(pg, config)
  THEN [pg EXCEPT !.sawNoopStart = TRUE]
  ELSE StartSession(autoAcceptUpdateBannedCommands(pg, config.bannedCommands),
                    config, hasBadge)

\* window.__autoAcceptStart(config)
autoAcceptStart(pg, config, hasBadge) ==
  LET pg1 == autoAcceptUpdateBannedCommands(pg, config.bannedCommands)
  IN  IF AlreadyRunning(pg1, config)
      THEN [pg1 EXCEPT !.sawNoopStart = TRUE]
      ELSE StartSession(pg1, config, hasBadge)

\* a stop that also starts the stats afresh
autoAcceptStop_ClearStats(pg) ==
  [pg EXCEPT !.isRunning = FALSE, !.stats = createDefaultStats]

\* window.__autoAcceptStop()
autoAcceptStop(pg) == [pg EXCEPT !.isRunning = FALSE]
(***************************************************************************)
(* Actions of the page                                                      *)
(***************************************************************************)
envVars == <<onPage, shown, clock>>
ctlVars == <<hIsEnabled, keyboardLoopInterval, connected, connInjected>>

\* a step that would start a click pass is explored only below the caps
PassAllowed(pg) ==
  /\ Len(pg.passes) < MaxPasses
  /\ pg.stats.blockedThisSession < MaxBlocked
  /\ pg.stats.clicksThisSession + Len(pg.passes) < MaxClicks

MaxFocus == 4        \* tab clicks explored
NumTabs == 3         \* the tabs of a page that shows tabs

\* an index that advances in every cycle
NextIndex_EveryCycle(index, nTabs) == index + 1

\* `if (tabs.length > 0) { ...; index++; }`: the index after the tab stage
NextIndex(index, nTabs) == IF nTabs > 0 THEN index + 1 ELSE index

\* the tab stage of cursorLoop (1327-1335) and antigravityLoop (1404-1415):
\* tabs[index % tabs.length] is clicked, then index++
FocusTab(pg, i, nTabs) ==
  [pg EXCEPT
     !.focusLog = IF nTabs > 0
                  THEN Append(@, [loop |-> i, tab |-> pg.loops[i].index % nTabs])
                  ELSE @,
     !.loops[i].index = NextIndex(@, nTabs)]

\* the timer loop body i sleeps on can fire
LoopStepGuard(i) ==
  /\ i \in 1..Len(loops)
  /\ loops[i].pc \in {"sleeping", "sleepA", "sleepB"}
  /\ (loops[i].pc # "sleepA" /\ LoopMayContinue(Page, loops[i].sid))
        => PassAllowed(Page)

\* the page after the timer of loop body i fired and the body ran to its
\* next await: from the last sleep of a cycle it makes its continuation test,
\* from the delays after the click pass (800 ms; 800 + 1000 + 1500 ms in
\* antigravityLoop) it goes to the last sleep of the cycle
\* the page sees nTabs tabs at the tab stage of the cycle
LoopResultTabs(i, hasBadge, nTabs) ==
  IF loops[i].pc = "sleepA"
  THEN FocusTab([Page EXCEPT !.loops[i].pc = "sleepB"], i, nTabs)
  ELSE LoopCheck(Page, i, hasBadge)

\* on a page that shows no tabs
LoopResult(i, hasBadge) == LoopResultTabs(i, hasBadge, 0)

\* A timer of loop body i fires: the body runs to its next await.
LoopStep(i, hasBadge) ==
  /\ LoopStepGuard(i)
  /\ SetPage(LoopResult(i, hasBadge))
  /\ UNCHANGED <<envVars, ctlVars, chanVars, lockVars, connVars, fnVars>>

\* the same on a page that shows nTabs tabs; tab clicks are explored up to
\* MaxFocus
LoopStepTabs(i, hasBadge, nTabs) ==
  /\ LoopStepGuard(i)
  /\ (loops[i].pc = "sleepA" /\ nTabs > 0) => Len(focusLog) < MaxFocus
  /\ SetPage(LoopResultTabs(i, hasBadge, nTabs))
  /\ UNCHANGED <<envVars, ctlVars, chanVars, lockVars, connVars, fnVars>>

\* isElementVisible(el), as the last check of waitForDisappear reads it
isElementVisible(e) == shown[e]

\* the statistics after the branch on `disappeared` (lines 1252-1260): both
\* branches call Analytics.trackClick(buttonText, log)
TrackAfterWait_VerifiedOnly(s, disappeared, buttonText) ==
  IF disappeared THEN trackClick(s, buttonText) ELSE s

TrackAfterWait(s, disappeared, buttonText) ==
  IF disappeared
  THEN trackClick(s, buttonText)
  ELSE trackClick(s, buttonText)

\* the page after waitForDisappear of pass k returned: the click is tracked
\* and verified++ either way (lines 1252-1260) and the for-loop goes on
PassResult(k) ==
  performClickFrom([Page EXCEPT
                      !.stats = TrackAfterWait(@, ~isElementVisible(passes[k].cur),
                                               Trim(Dom[passes[k].cur].textContent)),
                      !.passes = RemoveAt(@, k)],
                   passes[k].owner, passes[k].closure, passes[k].queue,
                   passes[k].now, passes[k].clicked, passes[k].verified + 1)

\* waitForDisappear of pass k returns
PassResume(k) ==
  /\ k \in 1..Len(passes)
  /\ SetPage(PassResult(k))
  /\ UNCHANGED <<envVars, ctlVars, chanVars, lockVars, connVars, fnVars>>

\* some closure of the agent has clicked control e
WasClicked(e) ==
  \E c \in 1..Len(clickedTimestamps) : clickedTimestamps[c][e] # 0

\* the IDE removes a control that was clicked
EnvDisappear(e) ==
  /\ shown[e]
  /\ WasClicked(e)
  /\ shown' = [shown EXCEPT ![e] = FALSE]
  /\ UNCHANGED <<onPage, clock, ctlVars, chanVars, lockVars, connVars, fnVars>>
  /\ SetPage(Page)

Tick ==
  /\ clock < (MaxTicks + 1) * TimeStep
  /\ clock' = clock + TimeStep
  /\ UNCHANGED <<onPage, shown, ctlVars, chanVars, lockVars, connVars, fnVars>>
  /\ SetPage(Page)

(***************************************************************************)
(* Actions of the controller on this page                                   *)
(***************************************************************************)
\* CDPHandler.start(config) for the page: connect if there is no
\* connection, inject if the connection has no script yet, then push the
\* start.  outcome: "ok", or "refused" when the socket could not be opened.
\* (A command that times out is the subject of the channel model.)
StartEffect(config, outcome, hasBadge) ==
  LET needInject == ~(connected /\ connInjected)
      pg1 == IF needInject THEN InjectScript(Page) ELSE Page
  IN  /\ hIsEnabled' = TRUE
      /\ keyboardLoopInterval' = TRUE
      /\ UNCHANGED envVars
      /\ \/ /\ outcome = "ok"
            /\ needInject => injected < MaxInject
            /\ ~AlreadyRunning(pg1, config) =>
                  sessionID < MaxSession /\ PassAllowed(pg1)
            /\ connected' = TRUE
            /\ connInjected' = TRUE
            /\ SetPage(autoAcceptStart(pg1, config, hasBadge))
         \/ /\ outcome = "refused"
            /\ ~connected
            /\ UNCHANGED <<connected, connInjected>>
            /\ SetPage(Page)

CdpStart(config, outcome, hasBadge) ==
  /\ StartEffect(config, outcome, hasBadge)
  /\ UNCHANGED <<chanVars, lockVars, connVars, fnVars>>

\* CDPHandler.stop(): the stop expression is sent on the open socket, which
\* is closed right after; delivered tells whether the page evaluated it.
StopEffect(delivered) ==
  /\ hIsEnabled' = FALSE
  /\ keyboardLoopInterval' = FALSE
  /\ connected' = FALSE
  /\ connInjected' = FALSE
  /\ IF connected /\ delivered /\ injected > 0
     THEN SetPage(autoAcceptStop(Page))
     ELSE SetPage(Page)
  /\ UNCHANGED envVars

CdpStop(delivered) ==
  /\ StopEffect(delivered)
  /\ UNCHANGED <<chanVars, lockVars, connVars, fnVars>>

\* ws 'close' / 'error': connections.delete(page.id)
SocketClose ==
  /\ connected
  /\ connected' = FALSE
  /\ connInjected' = FALSE
  /\ UNCHANGED <<hIsEnabled, keyboardLoopInterval, envVars, chanVars, lockVars, connVars, fnVars>>
  /\ SetPage(Page)

PageTitles == {"Antigravity", "Visual Studio Code"}

\* verifyTargetIsAntigravity on a page with this title
TitleIsSafe(title) == title # "Visual Studio Code"

\* The callback of startKeyboardShortcutLoop: Alt+G is sent to the first
\* connection; the IDE accepts the step that is waiting for confirmation.
KeyboardShortcutTick(title, e) ==
  /\ keyboardLoopInterval
  /\ IsOnPage(e)
  /\ UNCHANGED <<onPage, clock, hIsEnabled, connected, connInjected, chanVars,
                 lockVars, connVars, fnVars>>
  /\ IF ~hIsEnabled
     THEN /\ keyboardLoopInterval' = FALSE
          /\ UNCHANGED shown
          /\ SetPage(Page)
     ELSE /\ UNCHANGED keyboardLoopInterval
          /\ IF connected /\ TitleIsSafe(title) /\ shown[e]
                /\ PendingCommand(e) # <<>>
             THEN /\ shown' = [shown EXCEPT ![e] = FALSE]
                  /\ SetPage([Page EXCEPT !.bannedAccepted =
                        IF MatchesBanned(e, bannedCommands)
                        THEN @ \cup {"shortcut"} ELSE @])
             ELSE /\ UNCHANGED shown
                  /\ SetPage(Page)

\* the badge is read by antigravityLoop only
BadgeChoices(kind) == IF kind = "antigravity" THEN BOOLEAN ELSE {FALSE}

AgentNext ==
  \/ \E c \in Configs, o \in {"ok", "refused"} :
        \E b \in BadgeChoices(LoopKind(c.ide, c.isBackgroundMode)) :
           CdpStart(c, o, b)
  \/ \E d \in BOOLEAN : CdpStop(d)
  \/ SocketClose
  \/ \E t \in PageTitles, e \in Elements : KeyboardShortcutTick(t, e)
  \/ \E i \in 1..MaxSession :
        \E b \in BadgeChoices(IF i <= Len(loops) THEN loops[i].kind
                                                 ELSE "none") :
           LoopStep(i, b)
  \/ \E k \in 1..MaxPasses : PassResume(k)
  \/ \E e \in Elements : EnvDisappear(e)
  \/ Tick

(***************************************************************************)
(* Stats collection and focus: CDPHandler.resetStats, getAwayActions and    *)
(* setFocusState evaluate the agent's entry points in every connected page. *)
(***************************************************************************)
MaxTracked == 2       \* clicks tracked in a page over all collections

\* a collection that also empties the away counter
collectROI_ClearAway(s) ==
  [s EXCEPT !.clicksThisSession = 0, !.blockedThisSession = 0,
            !.actionsWhileAway = 0]

\* the object `collected` that Analytics.collectROI returns (sessionStart
\* left out)
collected(s) ==
  [clicks |-> s.clicksThisSession, blocked |-> s.blockedThisSession]

\* the `count` that Analytics.consumeAwayActions returns
count(s) == s.actionsWhileAway

\* Analytics.collectROI
collectROI(s) == [s EXCEPT !.clicksThisSession = 0, !.blockedThisSession = 0]

\* Analytics.getSessionSummary (estimatedTimeSaved left out)
getSessionSummary(s) ==
  [clicks |-> s.clicksThisSession,
   fileEdits |-> s.fileEditsThisSession,
   terminalCommands |-> s.terminalCommandsThisSession,
   blocked |-> s.blockedThisSession]

\* Analytics.consumeAwayActions
consumeAwayActions(s) == [s EXCEPT !.actionsWhileAway = 0]

\* a focus change that counts the clicks of the session as made while away
setFocusState_Reclassify(s, isFocused) ==
  [s EXCEPT !.isWindowFocused = isFocused,
            !.actionsWhileAway = IF isFocused THEN @ ELSE s.clicksThisSession]

\* Analytics.setFocusState(isFocused)
setFocusState(s, isFocused) == [s EXCEPT !.isWindowFocused = isFocused]

\* the entry points exist in a page once the agent script was evaluated in it
AgentReachable == connected /\ injected > 0

\* CDPHandler.resetStats(): window.__autoAcceptResetStats()
CdpResetStats ==
  /\ AgentReachable
  /\ stats.fileEditsThisSession + stats.terminalCommandsThisSession
        + Len(passes) < MaxTracked
  /\ SetPage([Page EXCEPT !.stats = collectROI(@)])
  /\ UNCHANGED <<envVars, ctlVars, chanVars, lockVars, connVars, fnVars>>

\* CDPHandler.getAwayActions(): window.__autoAcceptGetAwayActions()
CdpGetAwayActions ==
  /\ AgentReachable
  /\ SetPage([Page EXCEPT !.stats = consumeAwayActions(@)])
  /\ UNCHANGED <<envVars, ctlVars, chanVars, lockVars, connVars, fnVars>>

\* CDPHandler.setFocusState(isFocused): window.__autoAcceptSetFocusState
CdpSetFocusState(isFocused) ==
  /\ AgentReachable
  /\ SetPage([Page EXCEPT !.stats = setFocusState(@, isFocused)])
  /\ UNCHANGED <<envVars, ctlVars, chanVars, lockVars, connVars, fnVars>>

StatsNext ==
  \/ CdpResetStats
  \/ CdpGetAwayActions
  \/ \E f \in BOOLEAN : CdpSetFocusState(f)

(***************************************************************************)
(* The command channel: CDPHandler.sendCommand, the 'message' handler of    *)
(* connectToPage and the timeout callback.  messageId and pendingMessages   *)
(* are shared by all connections of the handler.                            *)
(***************************************************************************)
MaxCommands  == 2     \* commands sent
MaxChanTicks == 2     \* clock ticks explored on the channel

\* the delay of the setTimeout in sendCommand
COMMAND_TIMEOUT_MS == 2000
ChanStep == COMMAND_TIMEOUT_MS \div 2

ChanPages == {"p1", "p2"}

ChanInit ==
  /\ messageId = 1
  /\ pendingMessages = {}
  /\ openConns = {}
  /\ commands = <<>>
  /\ timers = {}
  /\ wire = {}
  /\ answered = {}
  /\ chanClock = 0
  /\ completionLog = <<>>
  /\ lateDropped = {}

\* ws.on('open'): connections.set(page.id, ...)
onOpen(c) ==
  /\ c \notin openConns
  /\ openConns' = openConns \cup {c}
  /\ UNCHANGED <<messageId, pendingMessages, commands, timers, wire, answered,
                 chanClock, completionLog, lateDropped>>
  /\ UNCHANGED <<agentVars, lockVars, connVars, fnVars>>

\* sendCommand(pageId, ...) on an open connection.  On a missing or closed
\* connection it returns Promise.reject('dead') and takes no id.
sendCommand(c) ==
  /\ c \in openConns
  /\ messageId <= MaxCommands
  /\ LET id == messageId
     IN  /\ messageId' = id + 1
         /\ pendingMessages' = pendingMessages \cup {id}
         /\ commands' = Append(commands, [conn |-> c, sentAt |-> chanClock,
                                          lost |-> FALSE])
         /\ timers' = timers \cup {id}
  /\ UNCHANGED <<openConns, wire, answered, chanClock, completionLog,
                 lateDropped>>
  /\ UNCHANGED <<agentVars, lockVars, connVars, fnVars>>

\* the page behind a connection answers a command it received, with a result
\* or with an error, over the socket the command came in on
PageAnswers(id, error) ==
  /\ id \in 1..Len(commands)
  /\ id \notin answered
  /\ commands[id].conn \in openConns
  /\ ~commands[id].lost
  /\ wire' = wire \cup {[conn |-> commands[id].conn, id |-> id, error |-> error]}
  /\ answered' = answered \cup {id}
  /\ UNCHANGED <<messageId, pendingMessages, openConns, commands, timers,
                 chanClock, completionLog, lateDropped>>
  /\ UNCHANGED <<agentVars, lockVars, connVars, fnVars>>

\* a 'message' handler that does not look the id up in pendingMessages
onMessage_NoHas(m) ==
  /\ m \in wire
  /\ wire' = wire \ {m}
  /\ pendingMessages' = pendingMessages \ {m.id}
  /\ completionLog' = Append(completionLog,
                             [id |-> m.id,
                              how |-> IF m.error THEN "error" ELSE "result"])
  /\ lateDropped' = IF m.id \in pendingMessages THEN lateDropped
                    ELSE lateDropped \cup {m.id}
  /\ UNCHANGED <<messageId, openConns, commands, timers, answered, chanClock>>
  /\ UNCHANGED <<agentVars, lockVars, connVars, fnVars>>

\* ws.on('message') for response m
onMessage(m) ==
  /\ m \in wire
  /\ wire' = wire \ {m}
  /\ IF m.id # 0 /\ m.id \in pendingMessages
     THEN /\ pendingMessages' = pendingMessages \ {m.id}
          /\ completionLog' = Append(completionLog,
                                     [id |-> m.id,
                                      how |-> IF m.error THEN "error"
                                                         ELSE "result"])
          /\ UNCHANGED lateDropped
     ELSE /\ lateDropped' = lateDropped \cup {m.id}
          /\ UNCHANGED <<pendingMessages, completionLog>>
  /\ UNCHANGED <<messageId, openConns, commands, timers, answered, chanClock>>
  /\ UNCHANGED <<agentVars, lockVars, connVars, fnVars>>

\* a timeout callback that rejects without looking at pendingMessages
onTimeout_NoHas(id) ==
  /\ id \in timers
  /\ chanClock - commands[id].sentAt >= COMMAND_TIMEOUT_MS
  /\ timers' = timers \ {id}
  /\ pendingMessages' = pendingMessages \ {id}
  /\ completionLog' = Append(completionLog, [id |-> id, how |-> "timeout"])
  /\ UNCHANGED <<messageId, openConns, commands, wire, answered, chanClock,
                 lateDropped>>
  /\ UNCHANGED <<agentVars, lockVars, connVars, fnVars>>

\* the callback of the setTimeout of sendCommand for command id
onTimeout(id) ==
  /\ id \in timers
  /\ chanClock - commands[id].sentAt >= COMMAND_TIMEOUT_MS
  /\ timers' = timers \ {id}
  /\ IF id \in pendingMessages
     THEN /\ pendingMessages' = pendingMessages \ {id}
          /\ completionLog' = Append(completionLog,
                                     [id |-> id, how |-> "timeout"])
     ELSE UNCHANGED <<pendingMessages, completionLog>>
  /\ UNCHANGED <<messageId, openConns, commands, wire, answered, chanClock,
                 lateDropped>>
  /\ UNCHANGED <<agentVars, lockVars, connVars, fnVars>>

\* a socket whose last frames are still handled after its 'close'
onClose_KeepFrames(c) ==
  /\ c \in openConns
  /\ openConns' = openConns \ {c}
  /\ commands' = [id \in 1..Len(commands) |->
                    IF commands[id].conn = c
                    THEN [commands[id] EXCEPT !.lost = TRUE]
                    ELSE commands[id]]
  /\ UNCHANGED <<messageId, pendingMessages, timers, answered, wire,
                 chanClock, completionLog, lateDropped>>
  /\ UNCHANGED <<agentVars, lockVars, connVars, fnVars>>

\* ws.on('close') / ws.on('error'): connections.delete(page.id); what the
\* page had sent and was not received is lost, and the socket of the commands
\* sent on this connection is gone
onClose(c) ==
  /\ c \in openConns
  /\ openConns' = openConns \ {c}
  /\ wire' = {m \in wire : m.conn # c}
  /\ commands' = [id \in 1..Len(commands) |->
                    IF commands[id].conn = c
                    THEN [commands[id] EXCEPT !.lost = TRUE]
                    ELSE commands[id]]
  /\ UNCHANGED <<messageId, pendingMessages, timers, answered,
                 chanClock, completionLog, lateDropped>>
  /\ UNCHANGED <<agentVars, lockVars, connVars, fnVars>>

ChanTick ==
  /\ chanClock < MaxChanTicks * ChanStep
  /\ chanClock' = chanClock + ChanStep
  /\ UNCHANGED <<messageId, pendingMessages, openConns, commands, timers,
                 wire, answered, completionLog, lateDropped>>
  /\ UNCHANGED <<agentVars, lockVars, connVars, fnVars>>

\* time passes while a setTimeout of sendCommand is not yet due
TimerWait ==
  /\ chanClock >= MaxChanTicks * ChanStep
  /\ \E id \in timers : chanClock - commands[id].sentAt < COMMAND_TIMEOUT_MS
  /\ chanClock' = chanClock + ChanStep
  /\ UNCHANGED <<messageId, pendingMessages, openConns, commands, timers,
                 wire, answered, completionLog, lateDropped>>
  /\ UNCHANGED <<agentVars, lockVars, connVars, fnVars>>

ChanNext ==
  \/ \E c \in ChanPages : onOpen(c)
  \/ \E c \in ChanPages : sendCommand(c)
  \/ \E id \in 1..MaxCommands, error \in BOOLEAN : PageAnswers(id, error)
  \/ \E m \in wire : onMessage(m)
  \/ \E id \in 1..MaxCommands : onTimeout(id)
  \/ \E c \in ChanPages : onClose(c)
  \/ ChanTick

(***************************************************************************)
(* The instance lock: the polling timer of startPolling in two windows of   *)
(* the same IDE, which share the extension's globalState.                   *)
(***************************************************************************)
MaxLockTicks == 4     \* polling intervals explored

\* the period of the setInterval in startPolling
POLL_TICK_MS == 5000
\* the age below which a heartbeat counts as alive
STALE_LOCK_MS == 15000

Instances == {"A", "B"}

\* globalContext.extension.id: the identifier of the extension, the same in
\* every window that runs it
myId(i) == "extension.id"

\* const defaultBannedCommands of activate, by its first entry; no list is
\* stored before the first update, so every window loads the default
defaultBannedCommands == << <<"r", "m", " ", "-", "r", "f", " ", "/">> >>

LockInit ==
  /\ lockOwner = "undefined"
  /\ lockPing = 0
  /\ lockClock = POLL_TICK_MS
  /\ isEnabled = [i \in Instances |-> FALSE]
  /\ isLockedOut = [i \in Instances |-> FALSE]
  /\ pollTimer = [i \in Instances |-> FALSE]
  /\ ticked = [i \in Instances |-> FALSE]
  /\ holder = "none"
  /\ syncedAt = [i \in Instances |-> -1]
  /\ scannedAt = [i \in Instances |-> -1]
  /\ storedBanned = defaultBannedCommands
  /\ memBanned = [i \in Instances |-> defaultBannedCommands]
  /\ lastPush = [by |-> "none", bannedCommands |-> defaultBannedCommands,
                 stored |-> defaultBannedCommands, afterUpdate |-> FALSE]
  /\ persistedEnabled = FALSE

\* syncSessions() in instance i: cdpHandler.start is called unless the
\* instance is locked out
syncSessions(i, lockedOut) ==
  IF ~lockedOut THEN [syncedAt EXCEPT ![i] = lockClock] ELSE syncedAt

\* the config of syncSessions() in instance i as the page agent receives it:
\* bannedCommands is the instance's own variable; `stored` and `afterUpdate`
\* record the store at the time of the call
ConfigPush(i, lockedOut, mem, stored, byEnabled) ==
  IF ~lockedOut
  THEN [by |-> i, bannedCommands |-> mem[i], stored |-> stored,
        afterUpdate |-> byEnabled]
  ELSE lastPush

\* target discovery: scanForInstances runs in cdpHandler.start, which
\* syncSessions calls, and nowhere else in startPolling
Discovery(i, lockedOut) ==
  IF ~lockedOut THEN [scannedAt EXCEPT ![i] = lockClock] ELSE scannedAt

\* handleToggle in instance i: enabling runs startPolling (a sync, then the
\* timer is armed and first fires one period later), disabling runs
\* stopPolling
handleToggle(i) ==
  /\ isEnabled' = [isEnabled EXCEPT ![i] = ~isEnabled[i]]
  /\ IF ~isEnabled[i]
     THEN /\ syncedAt' = syncSessions(i, isLockedOut[i])
          /\ scannedAt' = Discovery(i, isLockedOut[i])
          /\ lastPush' = ConfigPush(i, isLockedOut[i], memBanned,
                                    storedBanned, persistedEnabled)
          /\ pollTimer' = [pollTimer EXCEPT ![i] = TRUE]
          /\ ticked' = [ticked EXCEPT ![i] = TRUE]
     ELSE /\ pollTimer' = [pollTimer EXCEPT ![i] = FALSE]
          /\ UNCHANGED <<syncedAt, scannedAt, ticked, lastPush>>
  /\ UNCHANGED <<lockOwner, lockPing, lockClock, isLockedOut, holder>>
  /\ UNCHANGED <<storedBanned, memBanned, persistedEnabled>>
  /\ UNCHANGED <<agentVars, chanVars, connVars, fnVars>>

\* the callback of the polling timer in instance i
PollTick(i) ==
  /\ pollTimer[i]
  /\ ~ticked[i]
  /\ ticked' = [ticked EXCEPT ![i] = TRUE]
  /\ IF ~isEnabled[i]
     THEN UNCHANGED <<lockOwner, lockPing, isLockedOut, holder, syncedAt,
                      scannedAt, lastPush>>
     ELSE IF /\ lockOwner # "undefined"
             /\ lockOwner # myId(i)
             /\ lockPing # 0
             /\ (lockClock - lockPing) < STALE_LOCK_MS
          THEN \* standby
               /\ isLockedOut' = [isLockedOut EXCEPT ![i] = TRUE]
               /\ UNCHANGED <<lockOwner, lockPing, holder, syncedAt, scannedAt,
                              lastPush>>
          ELSE /\ lockOwner' = myId(i)
               /\ lockPing' = lockClock
               /\ holder' = i
               /\ isLockedOut' = [isLockedOut EXCEPT ![i] = FALSE]
               /\ syncedAt' = syncSessions(i, FALSE)
               /\ scannedAt' = Discovery(i, FALSE)
               /\ lastPush' = ConfigPush(i, FALSE, memBanned, storedBanned,
                                         persistedEnabled)
  /\ UNCHANGED <<lockClock, isEnabled, pollTimer>>
  /\ UNCHANGED <<storedBanned, memBanned, persistedEnabled>>
  /\ UNCHANGED <<agentVars, chanVars, connVars, fnVars>>

\* one polling period passes; every armed timer has fired in it
LockTick ==
  /\ lockClock < (MaxLockTicks + 1) * POLL_TICK_MS
  /\ \A i \in Instances : pollTimer[i] => ticked[i]
  /\ lockClock' = lockClock + POLL_TICK_MS
  /\ ticked' = [i \in Instances |-> FALSE]
  /\ UNCHANGED <<lockOwner, lockPing, isEnabled, isLockedOut, pollTimer,
                 holder, syncedAt, scannedAt, storedBanned, memBanned,
                 lastPush, persistedEnabled>>
  /\ UNCHANGED <<agentVars, chanVars, connVars, fnVars>>

\* handleBannedCommandsUpdate(context, commands) in instance i: the variable
\* is assigned, the list is persisted, and an enabled instance syncs
handleBannedCommandsUpdate(i, list) ==
  /\ memBanned' = [memBanned EXCEPT ![i] = list]
  /\ storedBanned' = list
  /\ persistedEnabled' = isEnabled[i]
  /\ IF isEnabled[i]
     THEN /\ syncedAt' = syncSessions(i, isLockedOut[i])
          /\ scannedAt' = Discovery(i, isLockedOut[i])
          /\ lastPush' = ConfigPush(i, isLockedOut[i], memBanned', list,
                                    isEnabled[i])
     ELSE UNCHANGED <<syncedAt, scannedAt, lastPush>>
  /\ UNCHANGED <<lockOwner, lockPing, lockClock, isEnabled, isLockedOut,
                 pollTimer, ticked, holder>>
  /\ UNCHANGED <<agentVars, chanVars, connVars, fnVars>>

\* the windows with the banned-command settings of their panels
SyncNext ==
  \/ \E i \in Instances : handleToggle(i)
  \/ \E i \in Instances : PollTick(i)
  \/ LockTick
  \/ \E i \in Instances, list \in BannedLists :
        handleBannedCommandsUpdate(i, list)

LockNext ==
  \/ \E i \in Instances : handleToggle(i)
  \/ \E i \in Instances : PollTick(i)
  \/ LockTick

(***************************************************************************)
(* Connections and injection: CDPHandler.start, connectToPage,              *)
(* injectAndStart and stop.  A start() call runs from one await to the next *)
(* in one step; several calls may be suspended at the same time, since      *)
(* syncSessions is called from the polling timer and from the update        *)
(* handlers without waiting for the call before.                            *)
(***************************************************************************)
MaxStartCalls == 2    \* start() calls made
MaxSockets == 3       \* sockets created

\* the JSON array /json/list answers with: a worker first, and one target
\* that has no webSocketDebuggerUrl
AllPages ==
  << [id |-> "w1", type |-> "worker", webSocketDebuggerUrl |-> TRUE],
     [id |-> "t2", type |-> "iframe", webSocketDebuggerUrl |-> TRUE],
     [id |-> "t0", type |-> "page", webSocketDebuggerUrl |-> FALSE],
     [id |-> "t1", type |-> "page", webSocketDebuggerUrl |-> TRUE] >>

\* priority[p.type] ?? 2 of the sort of getPages
Priority(p) ==
  CASE p.type = "page" -> 0
    [] p.type = "iframe" -> 1
    [] p.type = "worker" -> 3
    [] OTHER -> 2

WithPriority(pages, n) ==
  LET Test(p) == Priority(p) = n IN SelectSeq(pages, Test)

\* getPages(port): the targets that have a webSocketDebuggerUrl, sorted by
\* priority (Array.prototype.sort is stable)
getPages(allPages) ==
  LET HasUrl(p) == p.webSocketDebuggerUrl
      validPages == SelectSeq(allPages, HasUrl)
  IN  WithPriority(validPages, 0) \o WithPriority(validPages, 1)
        \o WithPriority(validPages, 2) \o WithPriority(validPages, 3)

\* instance.pages
InstancePages == getPages(AllPages)

\* the pages scanForInstances reports, in the order start() walks them
TargetList == [k \in 1..Len(InstancePages) |-> InstancePages[k].id]
TargetType == [k \in 1..Len(InstancePages) |-> InstancePages[k].type]

\* a loop body of start() that goes on at once
SkipsPage_Never(k) == FALSE

\* `if (page.type === 'worker') continue` of start()
SkipsPage(k) == TargetType[k] = "worker"

\* the targets start() does not skip
DomTargets == {TargetList[k] : k \in {j \in 1..Len(TargetList) : TargetType[j] # "worker"}}

Targets == {TargetList[k] : k \in 1..Len(TargetList)}

ConnInit ==
  /\ sockets = <<>>
  /\ connections = [t \in Targets |-> 0]
  /\ startCalls = <<>>

\* the state of the handler's connections, gathered in a record; ok tells
\* that the step stays within MaxSockets
Conn ==
  [sockets |-> sockets, connections |-> connections, startCalls |-> startCalls,
   ok |-> TRUE]

SetConn(cs) ==
  /\ cs.ok
  /\ sockets' = cs.sockets
  /\ connections' = cs.connections
  /\ startCalls' = cs.startCalls

\* start() call i is suspended at await pc, in the loop body of target k,
\* with conn / ws being socket u
Suspend(cs, i, pc, k, u) ==
  [cs EXCEPT !.startCalls[i] = [pc |-> pc, k |-> k, ws |-> u]]

\* sendCommand's test: the target has an entry whose socket is OPEN
CanSend(cs, t) ==
  /\ cs.connections[t] # 0
  /\ cs.sockets[cs.connections[t]].state = "open"

RECURSIVE StartLoop(_, _, _, _)
\* injectAndStart from `if (conn.injected)`: the start push.  A rejected
\* sendCommand is caught and the loop of start() goes on.
PushStart(cs, i, k, scriptMissing) ==
  IF CanSend(cs, TargetList[k])
  THEN Suspend(cs, i, "pushing", k, cs.connections[TargetList[k]])
  ELSE StartLoop(cs, i, k + 1, scriptMissing)

\* injectAndStart(pageId, config) up to its first await; conn is the entry
\* of the target at the time of the call
injectAndStart(cs, i, k, scriptMissing) ==
  IF ~cs.sockets[cs.connections[TargetList[k]]].injected
  THEN IF scriptMissing \/ ~CanSend(cs, TargetList[k])
       THEN \* getComposedScript throws, or sendCommand rejects 'dead'
            StartLoop(cs, i, k + 1, scriptMissing)
       ELSE Suspend(cs, i, "injecting", k, cs.connections[TargetList[k]])
  ELSE PushStart(cs, i, k, scriptMissing)

\* the for-loop of start() from the top of the body for target k up to the
\* next await
StartLoop(cs, i, k, scriptMissing) ==
  IF k > Len(TargetList) THEN Suspend(cs, i, "diag", k, 0)
  ELSE IF SkipsPage(k) THEN StartLoop(cs, i, k + 1, scriptMissing)
  ELSE IF cs.connections[TargetList[k]] = 0
       THEN \* connectToPage: new WebSocket(...)
            IF Len(cs.sockets) >= MaxSockets THEN [cs EXCEPT !.ok = FALSE]
            ELSE Suspend([cs EXCEPT !.sockets =
                            Append(@, [target |-> TargetList[k],
                                       state |-> "connecting",
                                       injected |-> FALSE, evals |-> 0,
                                       pushed |-> FALSE])],
                         i, "connecting", k, Len(cs.sockets) + 1)
       ELSE injectAndStart(cs, i, k, scriptMissing)

\* the start() calls suspended in connectToPage on socket u go on after the
\* promise is resolved: `if (this.connections.has(page.id))`
RECURSIVE AfterConnect(_, _, _, _)
AfterConnect(cs, u, i, scriptMissing) ==
  IF i > Len(cs.startCalls) THEN cs
  ELSE IF cs.startCalls[i].pc = "connecting" /\ cs.startCalls[i].ws = u
       THEN AfterConnect(
              IF cs.connections[TargetList[cs.startCalls[i].k]] # 0
              THEN injectAndStart(cs, i, cs.startCalls[i].k, scriptMissing)
              ELSE StartLoop(cs, i, cs.startCalls[i].k + 1, scriptMissing),
              u, i + 1, scriptMissing)
       ELSE AfterConnect(cs, u, i + 1, scriptMissing)

\* CDPHandler.start(config) is called: it awaits scanForInstances
StartCall ==
  /\ Len(startCalls) < MaxStartCalls
  /\ SetConn([Conn EXCEPT !.startCalls = Append(@, [pc |-> "scan", k |-> 0,
                                                    ws |-> 0])])
  /\ UNCHANGED <<agentVars, chanVars, lockVars, fnVars>>

\* scanForInstances returns to call i
ScanReturns(i, scriptMissing) ==
  /\ i \in 1..Len(startCalls)
  /\ startCalls[i].pc = "scan"
  /\ SetConn(StartLoop(Conn, i, 1, scriptMissing))
  /\ UNCHANGED <<agentVars, chanVars, lockVars, fnVars>>

\* ws.on('open') of socket u: connections.set(page.id, {ws, injected: false})
SocketOpens(u, scriptMissing) ==
  /\ u \in 1..Len(sockets)
  /\ sockets[u].state = "connecting"
  /\ SetConn(AfterConnect(
               [Conn EXCEPT !.sockets[u].state = "open",
                            !.connections[sockets[u].target] = u],
               u, 1, scriptMissing))
  /\ UNCHANGED <<agentVars, chanVars, lockVars, fnVars>>

\* a handler of 'error' and 'close' that leaves the connections table alone
SocketEnds_KeepEntry(u, scriptMissing) ==
  /\ u \in 1..Len(sockets)
  /\ sockets[u].state # "closed"
  /\ SetConn(AfterConnect([Conn EXCEPT !.sockets[u].state = "closed"],
                          u, 1, scriptMissing))
  /\ UNCHANGED <<agentVars, chanVars, lockVars, fnVars>>

\* ws.on('error') / ws.on('close') of socket u: connections.delete(page.id)
SocketEnds(u, scriptMissing) ==
  /\ u \in 1..Len(sockets)
  /\ sockets[u].state # "closed"
  /\ SetConn(AfterConnect(
               [Conn EXCEPT !.sockets[u].state = "closed",
                            !.connections[sockets[u].target] = 0],
               u, 1, scriptMissing))
  /\ UNCHANGED <<agentVars, chanVars, lockVars, fnVars>>

InjectionOutcomes == {"ok", "exception", "timeout", "timeout after evaluation"}

\* the page evaluated the agent script to its end
Evaluated(outcome) == outcome \in {"ok", "timeout after evaluation"}

\* an injectAndStart that marks the connection injected whatever came back
AfterInjection_AnyOutcome(cs, i, outcome, scriptMissing) ==
  PushStart([cs EXCEPT !.sockets[cs.startCalls[i].ws].injected = TRUE],
            i, cs.startCalls[i].k, scriptMissing)

\* injectAndStart after the await of the injecting sendCommand came back
\* with outcome
AfterInjection(cs, i, outcome, scriptMissing) ==
  IF outcome = "ok"
  THEN PushStart([cs EXCEPT !.sockets[cs.startCalls[i].ws].injected = TRUE],
                 i, cs.startCalls[i].k, scriptMissing)
  ELSE IF outcome = "exception" /\ cs.sockets[cs.startCalls[i].ws].injected
       THEN PushStart(cs, i, cs.startCalls[i].k, scriptMissing)
       ELSE StartLoop(cs, i, cs.startCalls[i].k + 1, scriptMissing)

\* the injecting evaluation of call i ends with outcome
InjectionReturns(i, outcome, scriptMissing) ==
  /\ i \in 1..Len(startCalls)
  /\ startCalls[i].pc = "injecting"
  /\ outcome \in {"ok", "exception"} => sockets[startCalls[i].ws].state = "open"
  /\ SetConn(AfterInjection(
               [Conn EXCEPT !.sockets[startCalls[i].ws].evals =
                               IF Evaluated(outcome) THEN @ + 1 ELSE @],
               i, outcome, scriptMissing))
  /\ UNCHANGED <<agentVars, chanVars, lockVars, fnVars>>

\* the start push of call i is answered by the page, or times out
PushReturns(i, started, scriptMissing) ==
  /\ i \in 1..Len(startCalls)
  /\ startCalls[i].pc = "pushing"
  /\ started => sockets[startCalls[i].ws].state = "open"
  /\ SetConn(StartLoop(
               [Conn EXCEPT !.sockets[startCalls[i].ws].pushed =
                               IF started THEN TRUE ELSE @],
               i, startCalls[i].k + 1, scriptMissing))
  /\ UNCHANGED <<agentVars, chanVars, lockVars, fnVars>>

\* logDiagnostics returns to call i; startKeyboardShortcutLoop; start() ends
DiagnosticsReturn(i) ==
  /\ i \in 1..Len(startCalls)
  /\ startCalls[i].pc = "diag"
  /\ SetConn(Suspend(Conn, i, "done", 0, 0))
  /\ UNCHANGED <<agentVars, chanVars, lockVars, fnVars>>

\* CDPHandler.stop(): disconnectAll closes the socket of every entry (its
\* 'close' event comes later) and clears the map
ConnStop ==
  /\ \E t \in Targets : connections[t] # 0
  /\ SetConn([Conn EXCEPT
                 !.sockets = [u \in 1..Len(sockets) |->
                                IF connections[sockets[u].target] = u
                                THEN [sockets[u] EXCEPT !.state = "closing"]
                                ELSE sockets[u]],
                 !.connections = [t \in Targets |-> 0]])
  /\ UNCHANGED <<agentVars, chanVars, lockVars, fnVars>>

ConnNext ==
  \/ StartCall
  \/ \E i \in 1..MaxStartCalls, m \in BOOLEAN : ScanReturns(i, m)
  \/ \E u \in 1..MaxSockets, m \in BOOLEAN : SocketOpens(u, m)
  \/ \E u \in 1..MaxSockets, m \in BOOLEAN : SocketEnds(u, m)
  \/ \E i \in 1..MaxStartCalls, o \in InjectionOutcomes, m \in BOOLEAN :
        InjectionReturns(i, o, m)
  \/ \E i \in 1..MaxStartCalls, a \in BOOLEAN, m \in BOOLEAN :
        PushReturns(i, a, m)
  \/ \E i \in 1..MaxStartCalls : DiagnosticsReturn(i)
  \/ ConnStop

\* A failure is followed by a further call of start(): the polling timer of
\* the extension is still to fire
FailuresAllowed == Len(startCalls) < MaxStartCalls

\* a socket may end while the sockets left suffice to connect again
DropAllowed ==
  /\ FailuresAllowed
  /\ Cardinality({u \in 1..Len(sockets) : sockets[u].state = "closed"})
        < MaxSockets - Cardinality(DomTargets)

\* the polling timer fires after the call before it has returned
TimerStartCall ==
  /\ \A i \in 1..Len(startCalls) : startCalls[i].pc = "done"
  /\ StartCall

\* The enabled extension with the lock: the polling timer keeps calling
\* start(), one call after the other, the script file is there, and from the
\* last call on the targets accept the handshake and answer the commands.
HealInjection(i) ==
  \E o \in InjectionOutcomes :
     /\ i \in 1..Len(startCalls)
     /\ startCalls[i].pc = "injecting"
     /\ \/ o = "ok"
        \/ FailuresAllowed
        \/ o = "timeout" /\ sockets[startCalls[i].ws].state # "open"
     /\ InjectionReturns(i, o, FALSE)

HealPush(i) ==
  \E a \in BOOLEAN :
     /\ i \in 1..Len(startCalls)
     /\ startCalls[i].pc = "pushing"
     /\ \/ a
        \/ FailuresAllowed
        \/ sockets[startCalls[i].ws].state # "open"
     /\ PushReturns(i, a, FALSE)

HealNext ==
  \/ TimerStartCall
  \/ \E i \in 1..MaxStartCalls : ScanReturns(i, FALSE)
  \/ \E u \in 1..MaxSockets : SocketOpens(u, FALSE)
  \/ \E u \in 1..MaxSockets : DropAllowed /\ SocketEnds(u, FALSE)
  \/ \E i \in 1..MaxStartCalls : HealInjection(i)
  \/ \E i \in 1..MaxStartCalls : HealPush(i)
  \/ \E i \in 1..MaxStartCalls : DiagnosticsReturn(i)

(***************************************************************************)
(* isCommandBanned as a function of its inputs: one call on a command text  *)
(* and a banned list.                                                       *)
(***************************************************************************)
MaxPatterns == 2      \* entries of the banned list

\* entries of the banned list: blank, literals, regular expressions with and
\* without flags, and /body/flags forms that `new RegExp` rejects
BannedEntries ==
  { <<" ">>,
    <<"r", "m">>,
    <<" ", "R", "M", " ">>,
    <<"/", "r", "m", "/">>,
    <<"/", "r", "m", "/", "g">>,
    <<"/", "r", ".", "*", "m", "/", "i">>,
    <<"/", "(", "r", "m", "/">>,
    <<"/", "u", "s", "r", "/", "b", "i", "n">>,
    <<"/", "^", "$", "/">> }

CommandTexts ==
  { <<>>,
    <<"r", "m">>,
    <<"R", "M">>,
    <<"r", "a", "m">>,
    <<"l", "s">>,
    <<"/", "u", "s", "r", "/", "b", "i", "n">>,
    <<"x", "/", "(", "r", "m", "/">> }

RECURSIVE ListsUpTo(_)
\* the banned lists of at most n entries
ListsUpTo(n) ==
  IF n = 0 THEN { <<>> }
  ELSE ListsUpTo(n - 1)
         \cup {Append(l, e) : l \in {x \in ListsUpTo(n - 1) : Len(x) = n - 1},
                              e \in BannedEntries}

\* a call about to be made, on any command text and any banned list
FnCallInit ==
  /\ argText \in CommandTexts
  /\ argList \in ListsUpTo(MaxPatterns)
  /\ result = [returned |-> FALSE, banned |-> FALSE, blocked |-> 0]

\* the call returns
CallIsCommandBanned ==
  /\ ~result.returned
  /\ result' = [returned |-> TRUE,
                banned |-> isCommandBanned(argText, argList).banned,
                blocked |-> isCommandBanned(argText, argList).blocked]
  /\ UNCHANGED <<argText, argList>>
  /\ UNCHANGED <<agentVars, chanVars, lockVars, connVars, roiVars, btnVars,
                 tabVars,
                 extVars, colVars>>

FnNext == CallIsCommandBanned

(***************************************************************************)
(* The weekly statistics: getWeekStart and loadROIStats of the extension.   *)
(* Dates are counted in days; day 0 is a Sunday.                            *)
(***************************************************************************)
MaxDay == 8           \* the last day explored
MaxWeekly == 1        \* the largest stored weekly counter

DAY_MS == 86400000

\* getWeekStart() on day d: local midnight of the Sunday on or before d
getWeekStart(d) == (d - (d % 7)) * DAY_MS

\* defaultStats on a day whose week starts at weekStart
DefaultStats(weekStart) ==
  [weekStart |-> weekStart, clicksThisWeek |-> 0,
   blockedThisWeek |-> 0, sessionsThisWeek |-> 0]

\* a reset that carries the stored counters into the new week
NewWeekStats_KeepCounters(old, currentWeekStart) ==
  [old EXCEPT !.weekStart = currentWeekStart]

\* { ...defaultStats, weekStart: currentWeekStart }
NewWeekStats(old, currentWeekStart) ==
  [DefaultStats(currentWeekStart) EXCEPT !.weekStart = currentWeekStart]

StoredStats ==
  [weekStart : {getWeekStart(0), getWeekStart(7)},
   clicksThisWeek : 0..MaxWeekly, blockedThisWeek : 0..MaxWeekly,
   sessionsThisWeek : 0..MaxWeekly]

\* read is what globalState.get returned, stats the variable of that name
NoCall == [pc |-> "idle", read |-> <<>>, stats |-> <<>>, currentWeekStart |-> 0]

\* no call of loadROIStats
RoiInit ==
  /\ globalStats = <<>>
  /\ today = 0
  /\ loadCall = NoCall

\* any stored statistics, or none, on any day
RoiCallInit ==
  /\ globalStats \in {<<>>} \cup {<<st>> : st \in StoredStats}
  /\ today \in 0..MaxDay
  /\ loadCall = NoCall

\* loadROIStats(context) up to its return, or up to the await of
\* showWeeklySummaryNotification
LoadROIStats ==
  /\ loadCall.pc = "idle"
  /\ LET defaultStats == DefaultStats(getWeekStart(today))
         loaded == IF globalStats = <<>> THEN defaultStats ELSE globalStats[1]
         currentWeekStart == getWeekStart(today)
     IN  IF loaded.weekStart # currentWeekStart
         THEN IF loaded.clicksThisWeek > 0
              THEN /\ loadCall' = [pc |-> "notifying", read |-> <<loaded>>,
                                   stats |-> <<loaded>>,
                                   currentWeekStart |-> currentWeekStart]
                   /\ UNCHANGED globalStats
              ELSE /\ loadCall' = [pc |-> "returned", read |-> <<loaded>>,
                                   stats |-> <<NewWeekStats(loaded, currentWeekStart)>>,
                                   currentWeekStart |-> currentWeekStart]
                   /\ globalStats' = <<NewWeekStats(loaded, currentWeekStart)>>
         ELSE /\ loadCall' = [pc |-> "returned", read |-> <<loaded>>,
                              stats |-> <<loaded>>,
                              currentWeekStart |-> currentWeekStart]
              /\ UNCHANGED globalStats
  /\ UNCHANGED today
  /\ UNCHANGED <<agentVars, chanVars, lockVars, connVars, banVars, btnVars,
                 tabVars,
                 extVars, colVars>>

\* the notification of showWeeklySummaryNotification is closed and
\* loadROIStats goes on: reset, globalState.update, return
NotificationCloses ==
  /\ loadCall.pc = "notifying"
  /\ loadCall' = [loadCall EXCEPT
                    !.pc = "returned",
                    !.stats = <<NewWeekStats(loadCall.stats[1],
                                             loadCall.currentWeekStart)>>]
  /\ globalStats' = <<NewWeekStats(loadCall.stats[1], loadCall.currentWeekStart)>>
  /\ UNCHANGED today
  /\ UNCHANGED <<agentVars, chanVars, lockVars, connVars, banVars, btnVars,
                 tabVars,
                 extVars, colVars>>

\* midnight passes
DayPasses ==
  /\ today < MaxDay
  /\ loadCall.pc # "returned"
  /\ today' = today + 1
  /\ UNCHANGED <<globalStats, loadCall>>
  /\ UNCHANGED <<agentVars, chanVars, lockVars, connVars, banVars, btnVars,
                 tabVars,
                 extVars, colVars>>

RoiNext == LoadROIStats \/ NotificationCloses \/ DayPasses

(***************************************************************************)
(* isAcceptButton as a function of its inputs: one call on an element.      *)
(***************************************************************************)
\* el.textContent of the elements explored
ButtonTexts ==
  { <<"A", "c", "c", "e", "p", "t">>,
    <<"A", "c", "c", "e", "p", "t", " ", "a", "l", "t", "+", "a">>,
    <<"R", "u", "N">>,
    <<"R", "u", "n", " ", "c", "o", "m", "m", "a", "n", "d">>,
    <<"c", "t", "r", "l", "+", "r", "u", "n">>,
    <<"C", "a", "n", "c", "e", "l">>,
    <<"N", "o", "t", " ", "a", "c", "c", "e", "p", "t", "e", "d">>,
    <<"h", "e", "l", "l", "o">>,
    <<>>,
    <<" ", " ">>,
    <<"ZW">>,
    <<"A", "c", "ZW", "c", "e", "p", "t">>,
    <<"a", "p", "p", "l", "y", " ", " ", "x", "x", "x", "x", "x", "x", "x", "x", "x", "x", "x", "x", "x", "x", "x", "x", "x", "x", "x", "x", "x", "x", "x", "x", "x", "x", "x", "x", "x", "x", "x", "x", "x", "x", "x", "x", "x", "x", "x", "x", "x", "x", "x", "x">>,
    <<"a", "p", "p", "l", "y", " ", "x", "x", "x", "x", "x", "x", "x", "x", "x", "x", "x", "x", "x", "x", "x", "x", "x", "x", "x", "x", "x", "x", "x", "x", "x", "x", "x", "x", "x", "x", "x", "x", "x", "x", "x", "x", "x", "x", "x", "x", "x", "x", "x", "x", "x">>,
    <<"a", "c", "c", "e", "p", "t", " ", "a", "c", "c", "e", "p", "t", " ", "a", "c", "c", "e", "p", "t", " ", "a", "c", "c", "e", "p", "t", " ", "a", "c", "c", "e", "p", "t", " ", "a", "c", "c", "e", "p", "t", " ", "a", "c", "c", "e", "p", "t", " ", "a", "c", "c", "e", "p", "t", " ">> }

\* the elements explored: each text with and without a command that is on
\* the banned list next to it, clickable or not
ButtonElements ==
  { [Control(t, anc, <<>>, <<>>, <<>>) EXCEPT !.pointerEvents = pe,
                                            !.disabled = dis] :
      t \in ButtonTexts,
      anc \in { <<>>, << <<"r", "m", " ", "-", "r", "f", " ", "/">> >> },
      pe \in BOOLEAN, dis \in BOOLEAN }

\* state.bannedCommands of the calls explored: empty, a literal, and a
\* regular expression that matches the empty string
ButtonBannedLists == BannedLists \cup { << <<"/", "^", "$", "/">> >> }

NotCalled == [returned |-> FALSE, accept |-> FALSE, blocked |-> 0]

\* no call of isAcceptButton
BtnInit ==
  /\ argEl = Control(<<>>, <<>>, <<>>, <<>>, <<>>)
  /\ argShown = FALSE
  /\ argBanned = <<>>
  /\ accepted = NotCalled

\* a call about to be made on any element
BtnCallInit ==
  /\ argEl \in ButtonElements
  /\ argShown \in BOOLEAN
  /\ argBanned \in ButtonBannedLists
  /\ accepted = NotCalled

\* the call returns
CallIsAcceptButton ==
  /\ ~accepted.returned
  /\ accepted' = [returned |-> TRUE,
                  accept |-> isAcceptButton(argEl, argShown, argBanned).accept,
                  blocked |-> isAcceptButton(argEl, argShown, argBanned).blocked]
  /\ UNCHANGED <<argEl, argShown, argBanned>>
  /\ UNCHANGED <<agentVars, chanVars, lockVars, connVars, banVars, roiVars,
                 tabVars,
                 extVars, colVars>>

(***************************************************************************)
(* The tab names: deduplicateNames and updateTabNames.  A name of the       *)
(* result is the list of the pieces of its template literal.                *)
(***************************************************************************)
MaxTabs == 3          \* tabs of the page

\* the labels explored; 'constructor' names a property every object inherits
TabLabels == {"Chat", "Fix bug", "Chat (2)", "constructor"}

\* the names of the properties of Object.prototype among the labels
ObjectPrototypeKeys == {"constructor"}

RECURSIVE SeqsUpTo(_, _)
\* the lists of at most n elements of set
SeqsUpTo(set, n) ==
  IF n = 0 THEN { <<>> }
  ELSE SeqsUpTo(set, n - 1)
         \cup {Append(l, e) : l \in {x \in SeqsUpTo(set, n - 1) : Len(x) = n - 1},
                              e \in set}

\* counts[name] for the object counts, whose own properties are those of the
\* function own: "undefined", a number as a string, or what ToNumber makes of
\* an inherited function once incremented
Lookup(own, name) ==
  IF name \in DOMAIN own THEN own[name]
  ELSE IF name \in ObjectPrototypeKeys THEN "function"
  ELSE "undefined"

\* the value of counts[name] after counts[name]++
Incremented(value) ==
  IF value \in {"function", "NaN"} THEN "NaN"
  ELSE CHOOSE v \in {ToString(k) : k \in 2..(MaxTabs + 1)} :
          \E k \in 1..MaxTabs : value = ToString(k) /\ v = ToString(k + 1)

\* own extended with own[name] = value
WithOwn(own, name, value) ==
  [n \in DOMAIN own \cup {name} |-> IF n = name THEN value ELSE own[n]]

RECURSIVE MapNames(_, _)
\* names.map(name => ...) from the state own of counts
MapNames(names, own) ==
  IF names = <<>> THEN <<>>
  ELSE LET name == Head(names)
       IN  IF Lookup(own, name) = "undefined"
           THEN << <<name>> >> \o MapNames(Tail(names), WithOwn(own, name, "1"))
           ELSE << <<name, " (", Incremented(Lookup(own, name)), ")">> >>
                  \o MapNames(Tail(names),
                              WithOwn(own, name, Incremented(Lookup(own, name))))

\* deduplicateNames(names): counts = {}
deduplicateNames(names) == MapNames(names, <<>>)

\* no call of updateTabNames
TabInit ==
  /\ rawNames = <<>>
  /\ tabNames = <<>>

\* the tabs of the page, before the first call
TabCallInit ==
  /\ rawNames \in SeqsUpTo(TabLabels, MaxTabs)
  /\ tabNames = <<>>

\* updateTabNames(tabs)
updateTabNames ==
  /\ tabNames # deduplicateNames(rawNames)
  /\ tabNames' = deduplicateNames(rawNames)
  /\ UNCHANGED rawNames
  /\ UNCHANGED <<agentVars, chanVars, lockVars, connVars, banVars, roiVars,
                 btnVars,
                 extVars, colVars>>

(***************************************************************************)
(* The extension of one window: handleToggle, ensureCDPOrPrompt,            *)
(* startPolling, stopPolling and the polling timer, from one await to the   *)
(* next.  The window holds the lock (no other window runs).                 *)
(***************************************************************************)
MaxToggles == 3       \* handleToggle calls explored
MaxFlights == 2       \* asynchronous calls in flight at once

ExtInit ==
  /\ extEnabled = FALSE
  /\ pollTimerRef = 0
  /\ intervals = {}
  /\ flights = <<>>
  /\ timersMade = 0
  /\ togglesMade = 0
  /\ lateStart = FALSE

\* the config object of syncSessions for this window
ToggleConfig ==
  [ide |-> "antigravity", isBackgroundMode |-> FALSE, pollInterval |-> 1000,
   bannedCommands |-> <<>>]

\* handleToggle up to `await context.globalState.update(...)`
ToggleCalled ==
  /\ togglesMade < MaxToggles
  /\ Len(flights) < MaxFlights
  /\ togglesMade' = togglesMade + 1
  /\ extEnabled' = ~extEnabled
  /\ flights' = Append(flights, "toggle")
  /\ UNCHANGED <<pollTimerRef, intervals, timersMade, lateStart>>
  /\ UNCHANGED <<agentVars, chanVars, lockVars, connVars, pureVars>>

\* handleToggle after the await, with isEnabled as it is by now: enabling
\* calls ensureCDPOrPrompt(true), which awaits isCDPAvailable; disabling
\* calls stopPolling, which runs to the end of cdpHandler.stop()
ToggleResumes(f, delivered) ==
  /\ f \in 1..Len(flights)
  /\ flights[f] = "toggle"
  /\ IF extEnabled
     THEN /\ flights' = [flights EXCEPT ![f] = "ensure"]
          /\ UNCHANGED <<pollTimerRef, intervals, agentVars>>
     ELSE /\ flights' = RemoveAt(flights, f)
          /\ pollTimerRef' = 0
          /\ intervals' = intervals \ {pollTimerRef}
          /\ StopEffect(delivered)
  /\ UNCHANGED <<extEnabled, timersMade, togglesMade, lateStart>>
  /\ UNCHANGED <<chanVars, lockVars, connVars, pureVars>>

\* ensureCDPOrPrompt returns and startPolling runs up to the await in
\* syncSessions: `if (pollTimer) clearInterval(pollTimer)`, then
\* cdpHandler.start sets its isEnabled and awaits scanForInstances
EnsureReturns(f) ==
  /\ f \in 1..Len(flights)
  /\ flights[f] = "ensure"
  /\ flights' = [flights EXCEPT ![f] = "polling"]
  /\ intervals' = intervals \ {pollTimerRef}
  /\ hIsEnabled' = TRUE
  /\ SetPage(Page)
  /\ UNCHANGED <<keyboardLoopInterval, connected, connInjected, envVars>>
  /\ UNCHANGED <<extEnabled, pollTimerRef, timersMade, togglesMade, lateStart>>
  /\ UNCHANGED <<chanVars, lockVars, connVars, pureVars>>

\* cdpHandler.start of flight f returns: the targets are connected,
\* injected and started, the shortcut timer is armed; in startPolling
\* `pollTimer = setInterval(...)` follows
StartReturns(f, outcome) ==
  /\ f \in 1..Len(flights)
  /\ flights[f] \in {"polling", "tick"}
  /\ StartEffect(ToggleConfig, outcome, FALSE)
  /\ lateStart' = (lateStart \/ (~extEnabled /\ outcome = "ok"))
  /\ flights' = RemoveAt(flights, f)
  /\ IF flights[f] = "polling"
     THEN /\ timersMade' = timersMade + 1
          /\ pollTimerRef' = timersMade + 1
          /\ intervals' = intervals \cup {timersMade + 1}
     ELSE UNCHANGED <<timersMade, pollTimerRef, intervals>>
  /\ UNCHANGED <<extEnabled, togglesMade>>
  /\ UNCHANGED <<chanVars, lockVars, connVars, pureVars>>

\* the callback of an interval that was not cleared: `if (!isEnabled)
\* return`, else the lock is written and syncSessions calls cdpHandler.start
PollTimerFires(t) ==
  /\ t \in intervals
  /\ extEnabled
  /\ Len(flights) < MaxFlights
  /\ flights' = Append(flights, "tick")
  /\ hIsEnabled' = TRUE
  /\ SetPage(Page)
  /\ UNCHANGED <<keyboardLoopInterval, connected, connInjected, envVars>>
  /\ UNCHANGED <<extEnabled, pollTimerRef, intervals, timersMade, togglesMade,
                 lateStart>>
  /\ UNCHANGED <<chanVars, lockVars, connVars, pureVars>>

ExtNext ==
  \/ ToggleCalled
  \/ \E f \in 1..MaxFlights, d \in BOOLEAN : ToggleResumes(f, d)
  \/ \E f \in 1..MaxFlights : EnsureReturns(f)
  \/ \E f \in 1..MaxFlights, o \in {"ok", "refused"} : StartReturns(f, o)
  \/ \E t \in 1..MaxToggles : PollTimerFires(t)

(***************************************************************************)
(* The statistics collection: collectAndSaveStats of the extension with     *)
(* CDPHandler.resetStats, from one await to the next, for the one page.     *)
(***************************************************************************)
MaxCollects == 1      \* collectAndSaveStats calls in flight at once
MaxStored == 1        \* stored weekly totals from which no collection is explored

ColInit == collects = <<>>

\* clicksThisWeek of the stored statistics
PersistedClicks ==
  IF globalStats = <<>> THEN 0 ELSE globalStats[1].clicksThisWeek

\* blockedThisWeek of the stored statistics
PersistedBlocked ==
  IF globalStats = <<>> THEN 0 ELSE globalStats[1].blockedThisWeek

\* collectAndSaveStats(context), called by the 30 s timer while isEnabled or
\* by handleToggle: resetStats sends its command to the connected page and
\* awaits the response
CollectCalled ==
  /\ hIsEnabled
  /\ AgentReachable
  /\ Len(collects) < MaxCollects
  /\ PersistedClicks < MaxStored
  /\ PersistedBlocked < MaxStored
  /\ collects' = Append(collects, [pc |-> "sent", clicks |-> 0, blocked |-> 0])
  /\ UNCHANGED <<agentVars, chanVars, lockVars, connVars, banVars, roiVars,
                 btnVars, tabVars, extVars>>

\* the page evaluates window.__autoAcceptResetStats() for call f: collectROI
\* zeroes the counters and the values go into the response
PageResetsStats(f) ==
  /\ f \in 1..Len(collects)
  /\ collects[f].pc = "sent"
  /\ collects' = [collects EXCEPT ![f] = [pc |-> "answered",
                                          clicks |-> collected(stats).clicks,
                                          blocked |-> collected(stats).blocked]]
  /\ SetPage([Page EXCEPT !.stats = collectROI(@)])
  /\ UNCHANGED <<envVars, ctlVars, chanVars, lockVars, connVars, banVars,
                 roiVars, btnVars, tabVars, extVars>>

\* currentStats after loadROIStats in a week that goes on, with the
\* collected values added
AddCollected(call) ==
  LET loaded == IF globalStats = <<>>
                THEN DefaultStats(getWeekStart(today)) ELSE globalStats[1]
  IN  [loaded EXCEPT !.clicksThisWeek = @ + call.clicks,
                     !.blockedThisWeek = @ + call.blocked]

\* the response reaches resetStats of call f, which returns; the values are
\* added to the stored statistics when there are any
ResetReturns(f) ==
  /\ f \in 1..Len(collects)
  /\ collects[f].pc = "answered"
  /\ collects' = RemoveAt(collects, f)
  /\ globalStats' = IF collects[f].clicks > 0 \/ collects[f].blocked > 0
                    THEN <<AddCollected(collects[f])>> ELSE globalStats
  /\ UNCHANGED <<today, loadCall>>
  /\ UNCHANGED <<agentVars, chanVars, lockVars, connVars, banVars, btnVars,
                 tabVars, extVars>>

\* sendCommand of call f is rejected: its 2000 ms timeout fires before the
\* response, or the socket is not open any more; resetStats catches the
\* error and returns zeros
ResetRejected(f) ==
  /\ f \in 1..Len(collects)
  /\ collects' = RemoveAt(collects, f)
  /\ UNCHANGED <<agentVars, chanVars, lockVars, connVars, banVars, roiVars,
                 btnVars, tabVars, extVars>>

CollectNext ==
  \/ CollectCalled
  \/ \E f \in 1..MaxCollects : PageResetsStats(f)
  \/ \E f \in 1..MaxCollects : ResetReturns(f)
  \/ \E f \in 1..MaxCollects : ResetRejected(f)

\* no call of the functions studied on their own
FnInit ==
  /\ argText = <<>>
  /\ argList = <<>>
  /\ result = [returned |-> FALSE, banned |-> FALSE, blocked |-> 0]
  /\ RoiInit
  /\ BtnInit
  /\ TabInit
  /\ ExtInit
  /\ ColInit

(***************************************************************************)
(* Specifications                                                           *)
(***************************************************************************)
vars == <<agentVars, chanVars, lockVars, connVars, fnVars>>

\* the page agent with the controller that drives it
Init == AgentInit /\ ChanInit /\ LockInit /\ ConnInit /\ FnInit

Next == AgentNext

Spec == Init /\ [][Next]_vars

\* a step of loop body i is possible and changes the page
LoopStepEnabled(i) ==
  /\ LoopStepGuard(i)
  /\ \E b \in BOOLEAN : LoopResult(i, b) # Page

\* Weak fairness of the steps the page takes by itself: a timer a loop body
\* sleeps on fires, and waitForDisappear returns (at the latest after its
\* timeout).  This is WF_vars(\E b : LoopStep(i, b)) and WF_vars(PassResume(k))
\* with the enabling conditions written as state predicates.
Fairness ==
  /\ \A i \in 1..MaxSession :
        \/ []<>(~LoopStepEnabled(i))
        \/ []<><<\E b \in BOOLEAN : LoopStep(i, b)>>_vars
  /\ \A k \in 1..MaxPasses :
        \/ []<>(k \notin 1..Len(passes))
        \/ []<><<PassResume(k)>>_vars

SpecFair == Spec /\ Fairness

\* The page agent and the controller with the controller's stats collection,
\* on a page whose control stays where it is; no feedback badge, no shortcut.
StatsAgentNext ==
  \/ \E c \in Configs : CdpStart(c, "ok", FALSE)
  \/ \E d \in BOOLEAN : CdpStop(d)
  \/ SocketClose
  \/ \E i \in 1..MaxSession : LoopStep(i, FALSE)
  \/ \E k \in 1..MaxPasses : PassResume(k)
  \/ Tick

InitStats == Init /\ onPage \in {<<1>>, <<2>>}

SpecStats == InitStats /\ [][StatsAgentNext \/ StatsNext]_vars

\* The page agent under pushes that differ in the poll interval
\* (handleFrequencyUpdate), on the page with the 'Accept' control.
FreqIntervals == {1000, 2000}

FreqConfigs ==
  [ide : {"cursor"}, isBackgroundMode : BOOLEAN, pollInterval : FreqIntervals,
   bannedCommands : { <<>> }]

FreqNext ==
  \/ \E c \in FreqConfigs : CdpStart(c, "ok", FALSE)
  \/ \E d \in BOOLEAN : CdpStop(d)
  \/ \E i \in 1..MaxSession : LoopStep(i, FALSE)
  \/ \E k \in 1..MaxPasses : PassResume(k)
  \/ Tick

InitFreq == Init /\ onPage = <<2>>

SpecFreq == InitFreq /\ [][FreqNext]_vars

\* The page agent with its statistics on a page of two controls, a terminal
\* step first and a file edit second; the IDE may remove a control that was
\* clicked.
ClickNext ==
  \/ StatsAgentNext
  \/ StatsNext
  \/ \E e \in Elements : EnvDisappear(e)

InitClick ==
  AgentInitOn({<<1, 2>>}) /\ ChanInit /\ LockInit /\ ConnInit /\ FnInit

SpecClick == InitClick /\ [][ClickNext]_vars

\* The page agent in the background modes on a page that shows either no
\* tab or NumTabs tabs at the tab stage of a cycle; the controller collects
\* the statistics; the clock stands still.
TabFocusNext ==
  \/ \E c \in Configs : CdpStart(c, "ok", FALSE)
  \/ \E d \in BOOLEAN : CdpStop(d)
  \/ \E i \in 1..MaxSession, b \in BOOLEAN, n \in {0, NumTabs} :
        LoopStepTabs(i, b, n)
  \/ \E k \in 1..MaxPasses : PassResume(k)
  \/ CdpResetStats

InitTabFocus ==
  AgentInitOn({<<2>>}) /\ ChanInit /\ LockInit /\ ConnInit /\ FnInit

SpecTabFocus == InitTabFocus /\ [][TabFocusNext]_vars

\* the extension of one window and the page it drives
InitExt == Init /\ onPage = <<2>>

SpecExt == InitExt /\ [][ExtNext]_vars

\* the page agent, the controller and the statistics collection of the
\* extension
InitCollect == Init /\ onPage = <<1>>

SpecCollect == InitCollect /\ [][StatsAgentNext \/ CollectNext]_vars

\* the command channel alone
InitChan == Init /\ onPage = <<1>>

SpecChan == InitChan /\ [][ChanNext]_vars

\* the command channel with the timers of the event loop: time passes and a
\* setTimeout callback that is due runs
ChanFairness ==
  /\ WF_vars(ChanTick \/ TimerWait)
  /\ \A id \in 1..MaxCommands : WF_vars(onTimeout(id))

SpecChanFair == InitChan /\ [][ChanNext \/ TimerWait]_vars /\ ChanFairness

\* the instance lock alone
SpecLock == InitChan /\ [][LockNext]_vars

\* two windows that share the stored banned list
SpecSync == InitChan /\ [][SyncNext]_vars

\* the connections of the controller alone
SpecConn == InitChan /\ [][ConnNext]_vars

\* the timer fires, and what a call awaits settles: the scan returns, a
\* handshake ends, a command is answered or times out
HealFairness ==
  /\ WF_vars(TimerStartCall)
  /\ \A i \in 1..MaxStartCalls :
        /\ WF_vars(ScanReturns(i, FALSE))
        /\ WF_vars(HealInjection(i))
        /\ WF_vars(HealPush(i))
        /\ WF_vars(DiagnosticsReturn(i))
  /\ \A u \in 1..MaxSockets :
        WF_vars(SocketOpens(u, FALSE) \/ (DropAllowed /\ SocketEnds(u, FALSE)))

\* the connections of the controller under the polling timer
SpecHeal == InitChan /\ [][HealNext]_vars /\ HealFairness

\* one call of isCommandBanned
InitBanned ==
  /\ AgentInit /\ ChanInit /\ LockInit /\ ConnInit /\ onPage = <<1>>
  /\ ExtInit /\ ColInit
  /\ FnCallInit /\ RoiInit /\ BtnInit /\ TabInit

SpecBanned == InitBanned /\ [][FnNext]_vars

\* one call of loadROIStats
InitRoi ==
  /\ AgentInit /\ ChanInit /\ LockInit /\ ConnInit /\ onPage = <<1>>
  /\ ExtInit /\ ColInit
  /\ argText = <<>> /\ argList = <<>>
  /\ result = [returned |-> FALSE, banned |-> FALSE, blocked |-> 0]
  /\ RoiCallInit /\ BtnInit /\ TabInit

SpecRoi == InitRoi /\ [][RoiNext]_vars

\* the other variables, at rest
AtRest ==
  /\ AgentInit /\ ChanInit /\ LockInit /\ ConnInit /\ onPage = <<1>>
  /\ ExtInit /\ ColInit

\* one call of isAcceptButton
InitButton ==
  /\ AtRest /\ RoiInit /\ TabInit /\ BtnCallInit
  /\ argText = <<>> /\ argList = <<>>
  /\ result = [returned |-> FALSE, banned |-> FALSE, blocked |-> 0]

SpecButton == InitButton /\ [][CallIsAcceptButton]_vars

\* one call of updateTabNames
InitTabs ==
  /\ AtRest /\ RoiInit /\ BtnInit /\ TabCallInit
  /\ argText = <<>> /\ argList = <<>>
  /\ result = [returned |-> FALSE, banned |-> FALSE, blocked |-> 0]

SpecTabs == InitTabs /\ [][updateTabNames]_vars

(***************************************************************************)
(* Properties                                                               *)
(***************************************************************************)
\* the normalized label of control e
LabelOf(e) == NormalizeText(Dom[e].textContent)

\* control e is a command button whose command matches bannedList
BannedCommandControl(e, bannedList) ==
  /\ IsCommandButton(LabelOf(e))
  /\ MatchesBanned(e, bannedList)

\* the label of control e passes the tests isAcceptButton makes before the
\* banned check
PassesLabelTests(e) ==
  /\ Len(LabelOf(e)) > 0
  /\ Len(LabelOf(e)) <= 50
  /\ ~SomeIncluded(LabelOf(e), RejectPatterns)
  /\ SomeIncluded(LabelOf(e), AcceptPatterns)

\* this step dispatches a click on control e
ClickedInStep(e) ==
  \E c \in 1..Len(clickedTimestamps') :
     clickedTimestamps'[c][e] #
        (IF c <= Len(clickedTimestamps) THEN clickedTimestamps[c][e] ELSE 0)

\* in this step loop body i passes its continuation test and runs
\* performClick
PassStarts(i, hasBadge) ==
  /\ loops[i].pc \in {"sleeping", "sleepB"}
  /\ LoopMayContinue(Page, loops[i].sid)
  /\ ~(loops[i].kind = "antigravity" /\ hasBadge)
  /\ UNCHANGED <<envVars, ctlVars>>
  /\ LoopStep(i, hasBadge)

\* this step is a CDPHandler.start whose start expression, with config c, was
\* evaluated in the page
StartPushed(c, hasBadge) ==
  /\ connected'
  /\ bannedCommands' = c.bannedCommands
  /\ currentMode' = c.ide
  /\ isBackgroundMode' = c.isBackgroundMode
  /\ CdpStart(c, "ok", hasBadge)

\* control e is off cooldown for loop body i
OffCooldown(i, e) ==
  \/ clickedTimestamps[loops[i].closure][e] = 0
  \/ clock - clickedTimestamps[loops[i].closure][e] >= CLICK_COOLDOWN_MS

\* loop body i is at its continuation test
AtCheck(i) == loops[i].pc \in {"sleeping", "sleepB"}

\* what isAcceptButton says of control e now
Verdict(e) == isAcceptButton(Dom[e], shown[e], bannedCommands)

\* C1 as stated: for every control whose normalized text contains 'run' or
\* 'execute' and whose nearby command matches the banned list, isAcceptButton
\* returns false, no click is dispatched on it, and the blocked counter is
\* incremented.
C1_BannedVetoesAndCounts ==
  /\ [](\A e \in Elements :
          IsOnPage(e) /\ BannedCommandControl(e, bannedCommands) =>
             Verdict(e) = [accept |-> FALSE, blocked |-> 1])
  /\ [][\A e \in Elements :
          ClickedInStep(e) => ~BannedCommandControl(e, bannedCommands')]_vars

\* C1, amended: for every such control isAcceptButton returns false and no
\* pass of any loop mode dispatches a click on it; the blocked counter is
\* incremented exactly when the label passes the tests made before the banned
\* check (1..50 characters, no reject keyword, an accept keyword), and then a
\* pass that evaluates the control off cooldown adds one to the counter.
C1_BannedVetoed ==
  /\ [](\A e \in Elements :
          IsOnPage(e) /\ BannedCommandControl(e, bannedCommands) =>
             Verdict(e) = [accept |-> FALSE,
                           blocked |-> IF PassesLabelTests(e) THEN 1 ELSE 0])
  /\ [][\A e \in Elements :
          ClickedInStep(e) => ~BannedCommandControl(e, bannedCommands')]_vars
  /\ [][\A i \in 1..Len(loops) :
          (/\ AtCheck(i)
           /\ LoopMayContinue(Page, loops[i].sid)
           /\ OffCooldown(i, Head(onPage))
           /\ stats'.blockedThisSession = stats.blockedThisSession
           /\ \E b \in BadgeChoices(loops[i].kind) : PassStarts(i, b))
          => ~(/\ BannedCommandControl(Head(onPage), bannedCommands)
               /\ PassesLabelTests(Head(onPage)))]_vars

\* a running agent has counted a block on the 'Run' control and has never
\* clicked it
C1_Witness ==
  /\ onPage = <<1>>
  /\ isRunning
  /\ BannedCommandControl(1, bannedCommands)
  /\ stats.blockedThisSession >= 1
  /\ ~WasClicked(1)

\* C2: while a banned pattern is configured, a pending command that matches
\* it is never accepted by the extension, neither by a click of the agent
\* (whatever the label of the control) nor by the Alt+G shortcut of the
\* keyboard-shortcut loop.
C2_BannedNeverAccepted == bannedAccepted = {}

\* C3: of two enabled instances that share the lock record only one syncs at
\* a time: no instance performs a sync, on a tick or when its polling starts,
\* while the other one holds the lock with a heartbeat younger than 15 s.
C3_OnlyOneSyncs ==
  [][\A i \in Instances, j \in Instances :
       (/\ i # j
        /\ isEnabled'[i]
        /\ isEnabled[j]
        /\ holder = j
        /\ lockClock - lockPing < STALE_LOCK_MS)
       => syncedAt'[i] = syncedAt[i]]_vars

\* C4: on a tick, an instance that reads a lock record written by another
\* instance less than 15 s ago writes nothing and does not sync; once the
\* heartbeat is 15 s old or more, its tick writes its id and the time and
\* syncs.
C4_StandbyRespected ==
  [][\A b \in Instances :
       /\ (/\ PollTick(b)
           /\ isEnabled[b]
           /\ holder \notin {"none", b}
           /\ lockClock - lockPing < STALE_LOCK_MS)
          => (holder' = holder /\ lockPing' = lockPing
              /\ syncedAt'[b] = syncedAt[b])
       /\ (/\ PollTick(b)
           /\ isEnabled[b]
           /\ holder \notin {"none", b}
           /\ lockClock - lockPing >= STALE_LOCK_MS)
          => (holder' = b /\ lockPing' = lockClock
              /\ syncedAt'[b] = lockClock)]_vars

\* the calls of resolve / reject made for command id
Completions(id) ==
  Cardinality({k \in 1..Len(completionLog) : completionLog[k].id = id})

TimedOut(id) ==
  \E k \in 1..Len(completionLog) :
     completionLog[k] = [id |-> id, how |-> "timeout"]

\* C5: whatever the commands sent and the order of the responses, each
\* command id is completed exactly once (by a result, an error or the
\* timeout), and a response with id k completes only the command sent with
\* id k, also with commands to several connections in flight.
C5_ExactlyOnce ==
  /\ [](\A id \in 1..Len(commands) :
          /\ Completions(id) <= 1
          /\ (id \in pendingMessages <=> Completions(id) = 0)
          /\ (id \notin timers => Completions(id) = 1))
  /\ [][\A m \in wire :
          onMessage(m) =>
             \/ completionLog' = completionLog
             \/ /\ completionLog' =
                     Append(completionLog,
                            [id |-> m.id,
                             how |-> IF m.error THEN "error" ELSE "result"])
                /\ commands[m.id].conn = m.conn]_vars

\* two commands sent to different connections were completed in the reverse
\* order of their ids
C5_Witness ==
  /\ Len(completionLog) = 2
  /\ completionLog[1].id = 2
  /\ completionLog[2].id = 1
  /\ commands[1].conn # commands[2].conn
  /\ completionLog[1].how # "timeout"

\* C6: a command with no response after 2000 ms is rejected with a timeout
\* once and its entry leaves the pending table; a response for that id that
\* arrives later changes neither the pending table nor any outcome.
C6_TimeoutOnce ==
  /\ [][\A id \in 1..MaxCommands :
          onTimeout(id) /\ id \in pendingMessages =>
             /\ completionLog' =
                   Append(completionLog, [id |-> id, how |-> "timeout"])
             /\ pendingMessages' = pendingMessages \ {id}]_vars
  /\ [][\A m \in wire :
          onMessage(m) /\ m.id \notin pendingMessages =>
             UNCHANGED <<pendingMessages, completionLog>>]_vars
  /\ [](\A id \in 1..Len(commands) :
          TimedOut(id) =>
             /\ Completions(id) = 1
             /\ id \notin pendingMessages
             /\ chanClock - commands[id].sentAt >= COMMAND_TIMEOUT_MS)

\* the response of a command arrived after the command had timed out
C6_Witness ==
  \E id \in lateDropped : TimedOut(id) /\ id \in answered

\* C7: __autoAcceptStart with the ide mode and background flag of the
\* running session is a no-op: sessionID and isRunning stay, no loop body is
\* launched.
C7_SameConfigStartIsNoOp ==
  [][\A c \in Configs, b \in BOOLEAN :
       AlreadyRunning(Page, c) =>
          \/ /\ sessionID' = sessionID
             /\ isRunning'
             /\ loops' = loops
             /\ passes' = passes
          \/ ~StartPushed(c, b)]_vars

\* a start was skipped as 'Already running'; the first session goes on
C7_Witness ==
  /\ sawNoopStart
  /\ isRunning
  /\ sessionID = 1
  /\ Len(loops) = 1

\* C8: __autoAcceptStart with another ide mode or background flag than the
\* running session strictly increases sessionID; a loop body of an earlier
\* sessionID ends at its next continuation test, starts no click pass there,
\* and stays ended.
C8_NewSessionRetiresLoops ==
  /\ [][\A c \in Configs, b \in BOOLEAN :
          isRunning /\ ~AlreadyRunning(Page, c) =>
             sessionID' > sessionID \/ ~StartPushed(c, b)]_vars
  /\ [][\A i \in 1..Len(loops) :
          /\ (loops[i].sid < sessionID /\ AtCheck(i) /\ loops'[i] # loops[i])
             => (loops'[i].pc = "done" /\ passes' = passes
                 /\ clickedTimestamps' = clickedTimestamps)
          /\ loops[i].pc = "done" => loops'[i] = loops[i]]_vars

\* the loop body of the first session has ended while the second session runs
C8_Witness ==
  /\ isRunning
  /\ sessionID = 2
  /\ Len(loops) = 2
  /\ loops[1].sid = 1
  /\ loops[1].pc = "done"
  /\ loops[2].pc # "done"

\* C9: after __autoAcceptStop, as long as no start follows, every loop body
\* ends at its next continuation test and no click pass begins; all loop
\* bodies end eventually; stop leaves sessionID as it is.
C9_StopEndsLoops ==
  /\ [][\A d \in BOOLEAN : sessionID' = sessionID \/ ~CdpStop(d)]_vars
  /\ [][\A i \in 1..Len(loops) :
          (~isRunning /\ AtCheck(i) /\ loops'[i] # loops[i])
             => (loops'[i].pc = "done" /\ passes' = passes
                 /\ clickedTimestamps' = clickedTimestamps)]_vars
  /\ [][~isRunning /\ ~isRunning' => Len(passes') <= Len(passes)]_vars
  /\ (~isRunning /\ injected > 0)
        ~> (isRunning \/ \A i \in 1..Len(loops) : loops[i].pc = "done")

\* the agent was stopped and its loop bodies have ended
C9_Witness ==
  /\ ~isRunning
  /\ sessionID = 2
  /\ Len(loops) = 2
  /\ \A i \in 1..Len(loops) : loops[i].pc = "done"

\* C10: sessionID never decreases and is never reset, by start, stop, loop
\* activity or a repeated evaluation of the agent script in the page; a start
\* that is not a no-op adds exactly 1.
C10_SessionMonotone ==
  /\ [][sessionID' \in {sessionID, sessionID + 1}]_vars
  /\ [][\A c \in Configs, b \in BOOLEAN :
          \/ sessionID' = (IF AlreadyRunning(Page, c) THEN sessionID
                                                      ELSE sessionID + 1)
          \/ ~StartPushed(c, b)]_vars
  /\ [](sessionID = Len(loops))

\* the script was evaluated a second time in a page whose session count went on
C10_Witness ==
  /\ injected = 2
  /\ sessionID = 2
  /\ isRunning
  /\ loops[1].closure = 1
  /\ loops[2].closure = 2
  /\ loops[2].sid = 2

\* C11: two click dispatches on the same element are never less than 5000 ms
\* apart, in any loop mode and over overlapping passes.
C11_ClickCooldown ==
  [][\A e \in Elements :
       ClickedInStep(e) /\ lastClick[e] # 0 =>
          clock - lastClick[e] >= CLICK_COOLDOWN_MS]_vars

\* the sockets to target t that are open
OpenSockets(t) ==
  {u \in 1..Len(sockets) : sockets[u].target = t /\ sockets[u].state = "open"}

\* C12: at most one live connection per target id: whatever the interleaving
\* of overlapping start() calls, socket events and stop(), no target has two
\* open sockets created by connectToPage.
C12_OneConnectionPerTarget ==
  \A t \in Targets : Cardinality(OpenSockets(t)) <= 1

\* C13: on each connection the agent script is evaluated in the page at most
\* once, whatever the interleaving of start() calls and whatever the timing
\* of the response against the command timeout.
C13_InjectedOnce ==
  \A u \in 1..Len(sockets) : sockets[u].evals <= 1

\* call i sends the start push to the target it was injecting
PushesSameTarget(i) ==
  /\ startCalls'[i].pc = "pushing"
  /\ startCalls'[i].k = startCalls[i].k

\* a call that comes to an open, not injected connection of the first target
\* with the script file present sends the injection
RetriesInjection ==
  [][\A i \in 1..Len(startCalls) :
       (/\ ScanReturns(i, FALSE)
        /\ CanSend(Conn, TargetList[1])
        /\ ~sockets[connections[TargetList[1]]].injected)
       => startCalls'[i] = [pc |-> "injecting", k |-> 1,
                            ws |-> connections[TargetList[1]]]]_vars

\* the injected flag of a connection is never cleared
InjectedStays ==
  [][\A u \in 1..Len(sockets) : sockets[u].injected => sockets'[u].injected]_vars

StartReached(c, hasBadge) ==
  /\ connected'
  /\ currentMode' = c.ide
  /\ isBackgroundMode' = c.isBackgroundMode
  /\ CdpStart(c, "ok", hasBadge)

\* C15: after a start push that carries a banned list the agent's
\* bannedCommands is the pushed list, the empty list included, also when the
\* push is a no-op for the session.
C15_PushSetsBannedList ==
  [][\A c \in Configs, b \in BOOLEAN :
       bannedCommands' = c.bannedCommands \/ ~StartReached(c, b)]_vars

\* the only session of the page counted a block under the first list, then a
\* push that was a no-op for the session brought the empty list
C15_Witness ==
  /\ sawNoopStart
  /\ isRunning
  /\ sessionID = 1
  /\ stats.blockedThisSession = 1
  /\ bannedCommands = <<>>

\* loop body i is the simple poll loop of the current session
LiveStaticLoop(i) ==
  /\ loops'[i].kind = "static"
  /\ loops'[i].sid = sessionID'
  /\ loops'[i].pc # "done"

\* C16: in simple mode the delay between passes is the pollInterval of the
\* configuration pushed last: after a push in simple mode, also one with
\* unchanged mode and background flag, the running loop sleeps for the
\* pushed interval.
C16_PollIntervalFollowsPush ==
  [][\A c \in FreqConfigs :
       (~c.isBackgroundMode /\ StartReached(c, FALSE)) =>
          \A i \in 1..Len(loops') :
             LiveStaticLoop(i) => loops'[i].pollInterval = c.pollInterval]_vars

\* the counters of the stats record
Counters(s) ==
  <<s.clicksThisSession, s.blockedThisSession, s.fileEditsThisSession,
    s.terminalCommandsThisSession, s.actionsWhileAway>>

\* the counters other than blocked
ClickCounters(s) ==
  <<s.clicksThisSession, s.fileEditsThisSession,
    s.terminalCommandsThisSession, s.actionsWhileAway>>

\* stop, socket close, the clock and the focus push leave every counter
StatsFrame ==
  [][Counters(stats') = Counters(stats)
       \/ ~(\/ \E d \in BOOLEAN : CdpStop(d)
            \/ SocketClose
            \/ Tick
            \/ \E f \in BOOLEAN : CdpSetFocusState(f))]_vars

\* C17 as stated: __autoAcceptStart, no-op or not, with or without a
\* re-evaluation of the agent script before it, and __autoAcceptStop leave
\* the counters clicks, blocked, fileEdits, terminalCommands and
\* actionsWhileAway unchanged.
C17_StatsUnchanged ==
  /\ [][\A c \in Configs :
          Counters(stats') = Counters(stats) \/ ~StartPushed(c, FALSE)]_vars
  /\ StatsFrame

\* C17, amended: a start, with or without a re-evaluation of the script
\* before it, and a stop never reset or lower a counter.  Stop and a no-op
\* start leave all five unchanged; a start that advances the session leaves
\* clicks, fileEdits, terminalCommands and actionsWhileAway unchanged, and
\* blocked grows by the trackBlocked calls of the first click pass, which
\* the new loop runs before __autoAcceptStart returns.
C17_StatsSurvive ==
  /\ [][\A c \in Configs :
          \/ /\ ClickCounters(stats') = ClickCounters(stats)
             /\ stats'.blockedThisSession >= stats.blockedThisSession
             /\ stats'.blockedThisSession - stats.blockedThisSession
                   <= Len(onPage)
             /\ sessionID' = sessionID =>
                   stats'.blockedThisSession = stats.blockedThisSession
          \/ ~StartPushed(c, FALSE)]_vars
  /\ StatsFrame

\* a click tracked while the window was away is still counted after the
\* clicks were collected, the script was evaluated again and a second
\* session was started
C17_Witness ==
  /\ injected = 2
  /\ sessionID = 2
  /\ isRunning
  /\ stats.clicksThisSession = 0
  /\ stats.fileEditsThisSession = 1
  /\ stats.actionsWhileAway = 1

\* ---- isCommandBanned as a function ----

\* the entry, trimmed, has the form /body/flags
RegexForm(entry) ==
  StartsWith(Trim(entry), <<"/">>) /\ LastIndexOf(Trim(entry), "/") > 0

RegexBody(entry) == Substring(Trim(entry), 1, LastIndexOf(Trim(entry), "/"))

\* the flags written after the last slash, case-insensitive when none is
RegexFlags(entry) ==
  LET given == Substring(Trim(entry), LastIndexOf(Trim(entry), "/") + 1,
                         Len(Trim(entry)))
  IN  IF given = <<>> THEN <<"i">> ELSE given

\* the entry is a /body/flags form that is no regular expression
InvalidRegex(entry) ==
  RegexForm(entry) /\ ~RegExpValid(RegexBody(entry), RegexFlags(entry))

\* the lowercased text contains the lowercased trimmed entry
LiteralHit(entry, text) ==
  Includes(ToLowerCase(text), ToLowerCase(Trim(entry)))

\* the entry is non-blank and matches the text: as a regular expression when
\* it is one, as a literal otherwise
EntryMatches(entry, text) ==
  /\ Trim(entry) # <<>>
  /\ IF RegexForm(entry) /\ ~InvalidRegex(entry)
     THEN RegExpTest(RegexBody(entry), RegexFlags(entry), text)
     ELSE LiteralHit(entry, text)

SomeEntryMatches == \E k \in 1..Len(argList) : EntryMatches(argList[k], argText)

\* C18 as stated: isCommandBanned(text, patterns) is true exactly when some
\* non-blank trimmed pattern matches the text (a /body/flags pattern as a
\* regular expression, case-insensitive when no flags are written, any other
\* pattern as a lowercased substring), and false for every text when the
\* list is empty.
C18_BannedIffSomePatternMatches ==
  result.returned =>
     /\ result.banned <=> SomeEntryMatches
     /\ argList = <<>> => ~result.banned

\* C18 amended: as above for a non-empty command text; for the empty command
\* text the result is false whatever the patterns, also when a regular
\* expression of the list matches the empty text.
C18_BannedIffPatternMatchesText ==
  result.returned =>
     /\ result.banned <=> (argText # <<>> /\ SomeEntryMatches)
     /\ argList = <<>> => ~result.banned

\* C18 witness: a blank entry is passed over and a regular expression written
\* without flags bans a command text of the other case.
C18_Witness ==
  /\ result.returned /\ result.banned
  /\ Len(argList) = 2
  /\ Trim(argList[1]) = <<>>
  /\ RegexForm(argList[2]) /\ RegexFlags(argList[2]) = <<"i">>
  /\ ~RegExpTest(RegexBody(argList[2]), <<>>, argText)

\* the list without its k-th entry
WithoutEntry(list, k) == SubSeq(list, 1, k - 1) \o SubSeq(list, k + 1, Len(list))

\* C19: an entry of the form /body/flags that is no valid regular expression
\* neither fails the call nor hides the other entries: the call returns what
\* a literal, case-insensitive match of that entry gives, or else what the
\* list without that entry gives.
C19_InvalidRegexIsLiteral ==
  result.returned =>
     \A k \in 1..Len(argList) :
        InvalidRegex(argList[k]) =>
           (result.banned <=>
              \/ argText # <<>> /\ LiteralHit(argList[k], argText)
              \/ isCommandBanned(argText, WithoutEntry(argList, k)).banned)

\* C19 witness: an invalid regular expression that the text does not contain
\* comes first and the entry after it bans the command; and an invalid regular
\* expression bans a command that contains it literally.
C19_Witness ==
  /\ result.returned /\ result.banned
  /\ Len(argList) = 2
  /\ InvalidRegex(argList[1])
  /\ \/ ~LiteralHit(argList[1], argText) /\ EntryMatches(argList[2], argText)
     \/ LiteralHit(argList[1], argText) /\ ~EntryMatches(argList[2], argText)

\* C20: a call tracks one blocked command when it returns true, however many
\* entries match, and none when it returns false.
C20_BlockedOncePerBan ==
  result.returned => result.blocked = (IF result.banned THEN 1 ELSE 0)

\* C20 witness: both entries of the list match and the call has returned true.
C20_Witness ==
  /\ result.returned /\ result.banned
  /\ Len(argList) = 2
  /\ EntryMatches(argList[1], argText)
  /\ EntryMatches(argList[2], argText)

\* ---- commands of a connection that went away ----

\* command id was sent over a socket that has closed and is still pending
PendingOnLostSocket(id) ==
  id \in 1..Len(commands) /\ commands[id].lost /\ id \in pendingMessages

\* C21: when the socket of a connection closes or errors, the connection
\* leaves the connections table; a command still pending on it leaves the
\* pending table only through the rejection of its timeout, never through a
\* result, and it does leave it.
C21_LostCommandsTimeOut ==
  /\ [][\A c \in ChanPages : onClose(c) => c \notin openConns']_vars
  /\ [][\A id \in 1..MaxCommands :
          PendingOnLostSocket(id) =>
             \/ id \in pendingMessages' /\ completionLog' = completionLog
             \/ /\ id \notin pendingMessages'
                /\ completionLog' =
                      Append(completionLog, [id |-> id, how |-> "timeout"])
             \/ /\ id \in pendingMessages'
                /\ completionLog'[Len(completionLog')].id # id]_vars
  /\ \A id \in 1..MaxCommands :
        PendingOnLostSocket(id) ~> (id \notin pendingMessages /\ TimedOut(id))

\* C21 witness: a command whose socket closed while it was pending was
\* rejected by its timeout, and the page had answered it before the close.
C21_Witness ==
  \E id \in 1..Len(commands) :
     /\ commands[id].lost /\ TimedOut(id)
     /\ id \in answered /\ id \notin lateDropped
     /\ \A m \in wire : m.id # id

\* ---- recovery of a lost connection ----

\* the target has a connection with an open socket, the agent injected over
\* it and the config pushed over it
Healthy(t) ==
  /\ connections[t] # 0
  /\ sockets[connections[t]].state = "open"
  /\ sockets[connections[t]].injected
  /\ sockets[connections[t]].pushed

\* a socket of the target ended, or a command on its connection failed
LostOrFailed(t) ==
  /\ ~Healthy(t)
  /\ \E u \in 1..Len(sockets) : sockets[u].target = t

\* C22: while the extension stays enabled and the targets accept the
\* handshake, a target whose connection was dropped or whose command failed
\* has, after a later call of start(), an open connection with the agent
\* injected and the config pushed; and every call of start() returns.
C22_ConnectionSelfHeals ==
  /\ \A t \in Targets : LostOrFailed(t) ~> Healthy(t)
  /\ \A i \in 1..MaxStartCalls :
        (i <= Len(startCalls))
           ~> (i <= Len(startCalls) /\ startCalls[i].pc = "done")

\* C22 witness: a socket of a target has ended and a socket created after it
\* is the target's connection, open, injected and with the config pushed.
C22_Witness ==
  \E u, v \in 1..Len(sockets) :
     /\ u < v
     /\ sockets[u].target = sockets[v].target
     /\ sockets[u].state = "closed"
     /\ connections[sockets[v].target] = v
     /\ Healthy(sockets[v].target)

\* ---- weekly rollover ----

\* C23: when loadROIStats finds a stored weekStart other than the week start
\* it computes, the statistics it returns and persists have clicksThisWeek,
\* blockedThisWeek and sessionsThisWeek zero and that week start; when the
\* stored weekStart is the computed one it returns the stored statistics and
\* writes nothing.
C23_WeeklyRollover ==
  [][\/ ~(LoadROIStats \/ NotificationCloses)
     \/ loadCall'.pc # "returned"
     \/ LET found == loadCall'.read[1]
            cws   == loadCall'.currentWeekStart
            ret   == loadCall'.stats[1]
        IN  /\ loadCall.pc = "idle" =>
                 /\ cws = getWeekStart(today)
                 /\ globalStats # <<>> => found = globalStats[1]
            /\ IF found.weekStart # cws
               THEN /\ ret.weekStart = cws
                    /\ ret.clicksThisWeek = 0
                    /\ ret.blockedThisWeek = 0
                    /\ ret.sessionsThisWeek = 0
                    /\ globalStats' = <<ret>>
               ELSE /\ ret = found
                    /\ globalStats' = globalStats]_vars

\* C23 witness: statistics of the week before with clicks, a blocked command
\* and a session were found, and the call has returned after the notification.
C23_Witness ==
  /\ loadCall.pc = "returned"
  /\ loadCall.read[1].weekStart = getWeekStart(0)
  /\ loadCall.read[1].clicksThisWeek > 0
  /\ loadCall.read[1].blockedThisWeek > 0
  /\ loadCall.read[1].sessionsThisWeek > 0
  /\ loadCall.currentWeekStart = getWeekStart(7)

\* ---- isAcceptButton as a function ----

\* the normalized text of the element of the call
ArgText == NormalizeText(argEl.textContent)

HasRejectKeyword  == \E k \in 1..Len(RejectPatterns) : Includes(ArgText, RejectPatterns[k])
HasAcceptKeyword  == \E k \in 1..Len(AcceptPatterns) : Includes(ArgText, AcceptPatterns[k])

\* the text names a command and the banned filter reports the command found
\* next to the element
VetoedByBannedFilter ==
  /\ Includes(ArgText, <<"r", "u", "n">>)
        \/ Includes(ArgText, <<"e", "x", "e", "c", "u", "t", "e">>)
  /\ isCommandBanned(findNearbyCommandText(argEl), argBanned).banned

\* C24: isAcceptButton(el) is true exactly when the normalized text is
\* non-empty and at most 50 characters long, contains no rejection keyword,
\* contains an acceptance keyword, is not vetoed by the banned filter, and the
\* element is displayed with a width, takes pointer events and is not
\* disabled; a text with an acceptance and a rejection keyword is rejected.
C24_AcceptIffAllTests ==
  accepted.returned =>
     /\ accepted.accept <=>
           /\ Len(ArgText) > 0 /\ Len(ArgText) <= 50
           /\ ~HasRejectKeyword
           /\ HasAcceptKeyword
           /\ ~VetoedByBannedFilter
           /\ argShown /\ argEl.pointerEvents /\ ~argEl.disabled
     /\ HasAcceptKeyword /\ HasRejectKeyword => ~accepted.accept

\* C24 witness: a clickable element whose text has an acceptance and a
\* rejection keyword was classified.
C24_Witness ==
  /\ accepted.returned /\ ~accepted.accept
  /\ HasAcceptKeyword /\ HasRejectKeyword
  /\ Len(ArgText) <= 50
  /\ argShown /\ argEl.pointerEvents /\ ~argEl.disabled

(***************************************************************************)
(* C25: click tracking                                                      *)
(***************************************************************************)
\* waitForDisappear of pass k returns in this step: the invocation either
\* returned or awaits its next click with one more verified
Resumes(k) ==
  /\ k \in 1..Len(passes)
  /\ \/ passes' = RemoveAt(passes, k)
     \/ /\ Len(passes') = Len(passes)
        /\ SubSeq(passes', 1, Len(passes') - 1) = RemoveAt(passes, k)
        /\ passes'[Len(passes')].verified = passes[k].verified + 1

\* the label of the control pass k clicked names a terminal step
TerminalLabel(k) ==
  LET text == ToLowerCase(Trim(Dom[passes[k].cur].textContent))
  IN  \/ Includes(text, <<"r", "u", "n">>)
      \/ Includes(text, <<"e", "x", "e", "c", "u", "t", "e">>)
      \/ Includes(text, <<"c", "o", "m", "m", "a", "n", "d">>)
      \/ Includes(text, <<"t", "e", "r", "m", "i", "n", "a", "l">>)

\* the three counters of tracked clicks move by these amounts in this step
CountersMove(clicks, terminal, edits) ==
  /\ stats'.clicksThisSession = stats.clicksThisSession + clicks
  /\ stats'.terminalCommandsThisSession
        = stats.terminalCommandsThisSession + terminal
  /\ stats'.fileEditsThisSession = stats.fileEditsThisSession + edits

\* C25: every click performClick dispatched is tracked exactly once, whether
\* or not the control disappeared: when the wait on a click ends, clicks
\* goes up by 1 and exactly one of terminalCommands (label mentions run,
\* execute, command or terminal) and fileEdits goes up by 1; no other step
\* raises these counters; and an invocation that returns has verified as
\* many clicks as it dispatched.
C25_EveryClickTrackedOnce ==
  [][
      /\ \A k \in 1..Len(passes) :
            Resumes(k) =>
               /\ IF TerminalLabel(k)
                  THEN CountersMove(1, 1, 0) ELSE CountersMove(1, 0, 1)
               /\ (passes' = RemoveAt(passes, k)
                     => passes[k].verified + 1 = passes[k].clicked)
      /\ (\A k \in 1..Len(passes) : ~Resumes(k)) =>
             /\ stats'.clicksThisSession <= stats.clicksThisSession
             /\ stats'.terminalCommandsThisSession
                   <= stats.terminalCommandsThisSession
             /\ stats'.fileEditsThisSession <= stats.fileEditsThisSession
      /\ \A k \in 1..Len(passes') : passes'[k].clicked = passes'[k].verified + 1
    ]_vars

\* one invocation clicked both controls: the terminal step was tracked
\* although it is still shown, and the wait on the file edit, which has
\* disappeared, is about to end
C25_Witness ==
  /\ Len(passes) = 1
  /\ passes[1].clicked = 2 /\ passes[1].verified = 1
  /\ passes[1].cur = 2 /\ ~shown[2] /\ shown[1]
  /\ stats.terminalCommandsThisSession = 1
  /\ stats.fileEditsThisSession = 0

(***************************************************************************)
(* C26: away actions and the focus flag                                     *)
(***************************************************************************)
\* the five counters of the statistics are the same after this step
CountersUnchanged ==
  /\ CountersMove(0, 0, 0)
  /\ stats'.blockedThisSession = stats.blockedThisSession
  /\ stats'.actionsWhileAway = stats.actionsWhileAway

\* C26: a tracked click adds 1 to actionsWhileAway exactly when the window
\* is unfocused at the moment of tracking, and no other step raises that
\* counter; a step that changes the focus flag (other than an evaluation of
\* the agent script, whose Analytics.initialize sets the flag and may be
\* followed by a start in the same step) leaves clicks, blocked, fileEdits,
\* terminalCommands and actionsWhileAway as they were, so clicks tracked
\* before a focus change are not reclassified.
C26_AwayCountedAtTracking ==
  [][
      /\ \A k \in 1..Len(passes) :
            Resumes(k) =>
               stats'.actionsWhileAway
                  = stats.actionsWhileAway
                      + (IF stats.isWindowFocused THEN 0 ELSE 1)
      /\ (\A k \in 1..Len(passes) : ~Resumes(k)) =>
             stats'.actionsWhileAway <= stats.actionsWhileAway
      /\ (stats'.isWindowFocused # stats.isWindowFocused /\ injected' = injected)
            => CountersUnchanged
      /\ \A f \in BOOLEAN :
            setFocusState(stats, f) = [stats EXCEPT !.isWindowFocused = f]
    ]_vars

\* the window is unfocused; of two clicks tracked so far one counts as made
\* while away
C26_Witness ==
  /\ ~stats.isWindowFocused
  /\ stats.actionsWhileAway = 1
  /\ stats.fileEditsThisSession + stats.terminalCommandsThisSession = 2

(***************************************************************************)
(* C27: the read-and-reset operations                                       *)
(***************************************************************************)
\* C27: collectROI returns the current clicks and blocked and zeroes both,
\* consumeAwayActions returns the current actionsWhileAway and zeroes it;
\* each leaves fileEdits, terminalCommands, the focus flag and the other
\* operation's counters as they were, and called again at once returns
\* zeros.  In the page, a step that lowers clicks or blocked zeroes both and
\* nothing else, and a step that lowers actionsWhileAway zeroes only it.
C27_ReadAndReset ==
  [][
      /\ collected(stats) = [clicks |-> stats.clicksThisSession,
                             blocked |-> stats.blockedThisSession]
      /\ collectROI(stats) = [stats EXCEPT !.clicksThisSession = 0,
                                           !.blockedThisSession = 0]
      /\ collected(collectROI(stats)) = [clicks |-> 0, blocked |-> 0]
      /\ count(stats) = stats.actionsWhileAway
      /\ consumeAwayActions(stats) = [stats EXCEPT !.actionsWhileAway = 0]
      /\ count(consumeAwayActions(stats)) = 0
      /\ (\/ stats'.clicksThisSession < stats.clicksThisSession
          \/ stats'.blockedThisSession < stats.blockedThisSession)
            => stats' = [stats EXCEPT !.clicksThisSession = 0,
                                      !.blockedThisSession = 0]
      /\ stats'.actionsWhileAway < stats.actionsWhileAway
            => stats' = [stats EXCEPT !.actionsWhileAway = 0]
    ]_vars

\* clicks were collected while an action made while away is still to be
\* consumed: the click counter is back at 0, the away counter and the
\* category counters are not
C27_Witness ==
  /\ stats.clicksThisSession = 0
  /\ stats.actionsWhileAway = 1
  /\ stats.fileEditsThisSession + stats.terminalCommandsThisSession >= 1

(***************************************************************************)
(* C28: worker targets                                                      *)
(***************************************************************************)
WorkerIndexes == {k \in 1..Len(TargetList) : TargetType[k] = "worker"}

\* C28: no connection is opened to a worker target and no script is
\* injected into one: the connections table has no entry for a worker id
\* and no socket was created for one, although discovery returns the worker
\* targets, after every target of another kind.
C28_NoWorkerConnection ==
  /\ \A k \in WorkerIndexes :
        /\ connections[TargetList[k]] = 0
        /\ \A u \in 1..Len(sockets) : sockets[u].target # TargetList[k]
  /\ \A p \in 1..Len(AllPages) :
        (AllPages[p].type = "worker" /\ AllPages[p].webSocketDebuggerUrl)
           => \E k \in WorkerIndexes : TargetList[k] = AllPages[p].id
  /\ \A k \in WorkerIndexes :
        \A j \in 1..Len(TargetList) : j > k => j \in WorkerIndexes

\* a start() call walked the whole list that discovery returned, worker
\* included, and ended: the other targets are connected and injected
C28_Witness ==
  /\ WorkerIndexes # {}
  /\ \E i \in 1..Len(startCalls) : startCalls[i].pc = "done"
  /\ \A t \in DomTargets :
        /\ CanSend(Conn, t)
        /\ sockets[connections[t]].injected

(***************************************************************************)
(* C29: standby                                                             *)
(***************************************************************************)
\* C29: while the lock is owned by another instance whose heartbeat is
\* younger than 15 s, a tick of an enabled instance makes no sync (no
\* connect, inject or config push) but still performs target discovery.
C29_StandbyTickOnlyScans ==
  [][\A b \in Instances :
       (/\ PollTick(b)
        /\ isEnabled[b]
        /\ holder \notin {"none", b}
        /\ lockClock - lockPing < STALE_LOCK_MS)
          => (/\ syncedAt'[b] = syncedAt[b]
              /\ scannedAt'[b] = lockClock)]_vars

(***************************************************************************)
(* C30: tab names                                                           *)
(***************************************************************************)
\* the number of the occurrence of rawNames[i] that position i is
Occurrence(i) ==
  Cardinality({j \in 1..i : rawNames[j] = rawNames[i]})

\* C30: the names updateTabNames stores are as many as the labels and in
\* their order; the first occurrence of a label is the label itself and its
\* k-th occurrence (k >= 2) is 'label (k)'.
C30_KthOccurrenceNumbered ==
  tabNames # <<>> =>
     /\ Len(tabNames) = Len(rawNames)
     /\ \A i \in 1..Len(rawNames) :
           tabNames[i] = IF Occurrence(i) = 1
                         THEN <<rawNames[i]>>
                         ELSE <<rawNames[i], " (", ToString(Occurrence(i)), ")">>

(***************************************************************************)
(* C31: round-robin focus                                                   *)
(***************************************************************************)
\* the tab clicks of loop body l, in order
FocusOf(l) ==
  LET Mine(e) == e.loop = l IN SelectSeq(focusLog, Mine)

\* C31: with NumTabs tabs in every cycle that sees tabs, the i-th such cycle
\* of a loop body (from 0) focuses tab i mod NumTabs, so any NumTabs
\* consecutive ones focus every tab once; the index of the loop body counts
\* the cycles that saw tabs only.
C31_RoundRobinFocus ==
  \A l \in 1..Len(loops) :
     /\ \A k \in 1..Len(FocusOf(l)) : FocusOf(l)[k].tab = (k - 1) % NumTabs
     /\ \A k \in 1..Len(FocusOf(l)) :
           k + NumTabs - 1 <= Len(FocusOf(l)) =>
              {FocusOf(l)[j].tab : j \in k..(k + NumTabs - 1)} = 0..(NumTabs - 1)
     /\ loops[l].index = Len(FocusOf(l))

\* a loop body of the antigravity mode went once round the tabs and is back
\* at the first one
C31_Witness ==
  \E l \in 1..Len(loops) :
     /\ loops[l].kind = "antigravity"
     /\ Len(FocusOf(l)) = NumTabs + 1
     /\ FocusOf(l)[NumTabs + 1].tab = 0

(***************************************************************************)
(* C32: one live loop body                                                  *)
(***************************************************************************)
\* the loop bodies that have not ended and would pass their while-test now
LiveLoops ==
  {i \in 1..Len(loops) :
      loops[i].pc # "done" /\ LoopMayContinue(Page, loops[i].sid)}

\* C32: in the page at most one loop body can pass its continuation test
\* (isRunning and its generation equal to sessionID): every start that is
\* not a no-op launches one loop body under a generation no other loop body
\* has, over any sequence of starts, stops and evaluations of the script.
C32_OneLiveLoop ==
  /\ Cardinality(LiveLoops) <= 1
  /\ \A i, j \in 1..Len(loops) : i # j => loops[i].sid # loops[j].sid
  /\ \A i \in 1..Len(loops) : loops[i].sid \in 1..sessionID

\* after a second evaluation of the script and a start in another mode, the
\* loop body of the first session has not ended yet and the one of the
\* second session is the only one that can go on
C32_Witness ==
  /\ injected = 2
  /\ Len(loops) = 2
  /\ loops[1].pc \notin {"done"}
  /\ LiveLoops = {2}

(***************************************************************************)
(* C33: disabling and the work in flight                                    *)
(***************************************************************************)
\* C33: whenever isEnabled of the extension is false and no asynchronous
\* call is in flight, the handler has no open connection, its shortcut timer
\* is not armed, no agent was started after a disable and at most one poll
\* timer exists.
C33_DisableWins ==
  (~extEnabled /\ flights = <<>>) =>
     /\ ~connected
     /\ ~keyboardLoopInterval
     /\ ~lateStart
     /\ Cardinality(intervals) <= 1

(***************************************************************************)
(* C34: the close event of a superseded socket                              *)
(***************************************************************************)
\* socket u ends in this step while the entry of its target is the one
\* another socket made
EndsSuperseded(u) ==
  /\ sockets[u].state # "closed"
  /\ sockets'[u].state = "closed"
  /\ connections[sockets[u].target] \notin {0, u}

\* C34: a close or error event of a socket removes from the connections
\* table only the entry this socket made: the late event of a superseded or
\* disconnected socket leaves the newer connection of the target in place.
C34_CloseRemovesOwnEntry ==
  [][\A u \in 1..Len(sockets) :
       EndsSuperseded(u) =>
          connections'[sockets[u].target] = connections[sockets[u].target]]_vars

(***************************************************************************)
(* C35: tracked clicks and the weekly total                                 *)
(***************************************************************************)
\* the clicks the agent has tracked: the category counters are never
\* reset
TrackedClicks ==
  stats.fileEditsThisSession + stats.terminalCommandsThisSession

\* C35: every click the agent tracked is added to the stored clicksThisWeek
\* exactly once: when no collection is in flight, the stored total and the
\* clicks not collected yet add up to the clicks tracked.
C35_ClicksPersistedOnce ==
  collects = <<>> =>
     PersistedClicks + stats.clicksThisSession = TrackedClicks

(***************************************************************************)
(* C36: the session summary                                                 *)
(***************************************************************************)
\* C36: in every reachable state the session summary is consistent:
\* getSessionSummary returns clicks equal to fileEdits + terminalCommands.
C36_SummaryConsistent ==
  getSessionSummary(stats).clicks
     = getSessionSummary(stats).fileEdits
         + getSessionSummary(stats).terminalCommands

(***************************************************************************)
(* C37: repeated vetoes of one control                                      *)
(***************************************************************************)
\* the controls of the page
ControlsOnPage == {e \in Elements : IsOnPage(e)}

\* C37: a banned command control that stays on screen adds one to the
\* blocked counter at its first veto and nothing in the passes after it: the
\* vetoes counted, collected into the weekly total or not yet, are never
\* more than the controls of the page.
C37_BlockedOncePerControl ==
  PersistedBlocked + stats.blockedThisSession <= Cardinality(ControlsOnPage)

\* the element of the call is a run/execute control with no command text
\* near it
NoCommandText ==
  /\ IsCommandButton(NormalizeText(argEl.textContent))
  /\ findNearbyCommandText(argEl) = <<>>

\* the element of the call passes every test of isAcceptButton other than the
\* banned-command filter
OtherwiseActionable ==
  LET text == NormalizeText(argEl.textContent)
  IN  /\ Len(text) \in 1..50
      /\ ~SomeIncluded(text, RejectPatterns)
      /\ SomeIncluded(text, AcceptPatterns)
      /\ IsVisibleForClick(argEl, argShown)

\* C38: for a run/execute control with no command text near it the filter
\* fails open whatever the banned list is: the call of isAcceptButton counts
\* no blocked command and accepts the control exactly when the control is
\* otherwise actionable.
C38_EmptyCommandFailsOpen ==
  (accepted.returned /\ NoCommandText) =>
     /\ accepted.blocked = 0
     /\ accepted.accept = OtherwiseActionable

\* a run control with no command text is accepted under a banned list whose
\* regular expression matches the empty string
C38_Witness ==
  /\ accepted.returned
  /\ NoCommandText
  /\ argBanned = << <<"/", "^", "$", "/">> >>
  /\ accepted.accept
  /\ accepted.blocked = 0
\* the characters of a name of tabNames, as the pieces no label shares: the
\* label 'Chat (2)' is the text of 'Chat' followed by ' (', '2' and ')'
StringOf(name) ==
  (IF name[1] = "Chat (2)" THEN <<"Chat", " (", "2", ")">> ELSE <<name[1]>>)
     \o Tail(name)

\* C39: the names deduplicateNames produces are pairwise distinct, whatever
\* the labels of the tabs are.
C39_NamesPairwiseDistinct ==
  \A i, j \in 1..Len(tabNames) :
     i # j => StringOf(tabNames[i]) # StringOf(tabNames[j])
\* C40: once an enabled instance has persisted a list, a config that
\* syncSessions hands to the page agent, from any instance, carries the list
\* the store holds at that time, never an older one.
C40_PushCarriesPersistedList ==
  lastPush.afterUpdate => lastPush.bannedCommands = lastPush.stored
====
